---- MODULE Spec2Model ----
(***************************************************************************)
(* Snapshot store of the market-data engine: MarketDataStore               *)
(* (py-app/market_data_store.py) on top of RedisRepository                 *)
(* (shared/src/pytm_shared/redis_repository.py), with the record model of  *)
(* py-app/models.py.  The Redis server is modelled by the commands the     *)
(* repository issues: LPUSH, LTRIM, EXPIRE, LRANGE, SCAN and key expiry.   *)
(* The module also covers the binary decoder of the feed                   *)
(* (py-app/paytm_websocket.py, parse_message and its six packet parsers),  *)
(* the process-wide Redis client of the shared package (configure_cache,   *)
(* get_redis_client), failures of the backend during a save or a fetch,    *)
(* the text of the keys the store builds, and the feed consumer            *)
(* (PaytmWebSocketClient.connect), which saves what the decoder returns.   *)
(***************************************************************************)
EXTENDS Integers, Sequences, FiniteSets, TLC

(* ------------------------------ bounds -------------------------------- *)
MaxSnapshots == 2
MaxTtl == 2
MaxSaves == 3
MaxFeed == 2
MaxTime == 2
MaxScanBatch == 2
MaxPackets == 2
MaxFailures == 2
MaxSeed == 2
MaxMessages == 2

Savers == {"s1", "s2"}
Fetchers == {"f1"}
SecurityIds == {13}
Times == 1..MaxTime
KeyPrefix == "md"

Min(a, b) == IF a < b THEN a ELSE b
Max(a, b) == IF a > b THEN a ELSE b

(* ------------------------- models.py: records ------------------------- *)
BaseFields == {"packet_type", "security_id", "tradable", "mode"}

LTPFields == BaseFields \cup
    {"last_price", "last_trade_time", "change_absolute", "change_percent"}

QuoteFields == BaseFields \cup
    {"last_price", "last_trade_time", "last_traded_quantity",
     "average_traded_price", "volume_traded", "total_buy_quantity",
     "total_sell_quantity", "open", "close", "high", "low",
     "change_percent", "change_absolute", "week52_high", "week52_low"}

FullFields == QuoteFields \cup {"market_depth", "oi", "change_oi"}

IndexLTPFields == BaseFields \cup
    {"last_price", "last_update_time", "change_absolute", "change_percent"}

IndexQuoteFields == BaseFields \cup
    {"last_price", "open", "close", "high", "low", "change_percent",
     "change_absolute", "week52_high", "week52_low"}

IndexFullFields == BaseFields \cup
    {"last_price", "open", "close", "high", "low", "change_percent",
     "change_absolute", "last_trade_time"}

\* MarketData = Union[LTP, Quote, Full, IndexLTP, IndexQuote, IndexFull]
MarketData == <<"LTP", "Quote", "Full", "IndexLTP", "IndexQuote", "IndexFull">>

Variants == {MarketData[i] : i \in 1..Len(MarketData)}

Fields(cls) ==
    CASE cls = "LTP" -> LTPFields
      [] cls = "Quote" -> QuoteFields
      [] cls = "Full" -> FullFields
      [] cls = "IndexLTP" -> IndexLTPFields
      [] cls = "IndexQuote" -> IndexQuoteFields
      [] cls = "IndexFull" -> IndexFullFields

\* the default of packet_type in each class
DefaultPacketType(cls) ==
    CASE cls = "LTP" -> 61
      [] cls = "Quote" -> 62
      [] cls = "Full" -> 63
      [] cls = "IndexLTP" -> 64
      [] cls = "IndexQuote" -> 65
      [] cls = "IndexFull" -> 66

\* every field but packet_type lacks a default, so it is required
Required(cls) == Fields(cls) \ {"packet_type"}

\* The freshness field a class declares, "" when it declares none.
TimeField(cls) ==
    CASE cls \in {"LTP", "Quote", "Full", "IndexFull"} -> "last_trade_time"
      [] cls = "IndexLTP" -> "last_update_time"
      [] cls = "IndexQuote" -> ""

\* A record as the decoder constructs it: packet_type is left to the class
\* default; price tells apart records that agree in everything else.
NewRecord(cls, sid, price, t) ==
    [cls |-> cls,
     f |-> [x \in Fields(cls) |->
              CASE x = "packet_type" -> DefaultPacketType(cls)
                [] x = "security_id" -> sid
                [] x = "last_price" -> price
                [] x = TimeField(cls) -> t
                [] OTHER -> 0]]

\* The records of the feed that carry n as their price.
FeedRecords(n) ==
    {NewRecord(cls, sid, n, t) : cls \in Variants \ {"IndexQuote"},
                                 sid \in SecurityIds, t \in Times}
    \cup {NewRecord("IndexQuote", sid, n, 0) : sid \in SecurityIds}

(* ---------------- market_data_store.py: (de)serialisation ------------- *)
\* _market_data_adapter.dump_json(market_data, by_alias=True): the JSON
\* object of the record's fields under their names (no alias is declared);
\* the class itself is not part of the stored form.
dump_json(market_data) == market_data.f

\* An element that is not the JSON of any variant.
Garbage == [garbage |-> 0]

\* The members of the union whose required fields the object carries.
Candidates(entry) == {c \in Variants : Required(c) \subseteq DOMAIN entry}

IndexOf(cls) == CHOOSE i \in 1..Len(MarketData) : MarketData[i] = cls

Leftmost(S) == CHOOSE c \in S : \A d \in S : IndexOf(c) <= IndexOf(d)

FieldsSet(cls, entry) == Cardinality(Fields(cls) \cap DOMAIN entry)

\* Union resolution of the validator: the leftmost member that validates
\* ("leftmost"), or the member with the most fields set, leftmost among
\* equals ("most_fields"); which one depends on the installed validator.
UnionMember(mode, entry) ==
    LET C == Candidates(entry)
    IN IF mode = "leftmost" THEN Leftmost(C)
       ELSE Leftmost({c \in C : \A d \in C :
                        FieldsSet(c, entry) >= FieldsSet(d, entry)})

\* _market_data_adapter.validate_json(entry): ok = FALSE stands for the
\* ValidationError (a ValueError) raised when no member validates.
validate_json(mode, entry) ==
    IF Candidates(entry) = {}
    THEN [ok |-> FALSE, val |-> [cls |-> "", f |-> Garbage]]
    ELSE LET c == UnionMember(mode, entry)
         IN [ok |-> TRUE,
             val |-> [cls |-> c,
                      f |-> [x \in Fields(c) |->
                               IF x \in DOMAIN entry THEN entry[x]
                               ELSE DefaultPacketType(c)]]]

\* _deserialize_entries with break in place of continue: the first entry
\* that raises ends the loop
RECURSIVE _deserialize_break(_, _)
_deserialize_break(mode, raw_entries) ==
    IF raw_entries = <<>> THEN <<>>
    ELSE LET v == validate_json(mode, Head(raw_entries))
         IN IF v.ok
            THEN <<v.val>> \o _deserialize_break(mode, Tail(raw_entries))
            ELSE <<>>

\* MarketDataStore._deserialize_entries: an entry that raises is skipped.
RECURSIVE _deserialize_entries(_, _)
_deserialize_entries(mode, raw_entries) ==
    IF raw_entries = <<>> THEN <<>>
    ELSE LET v == validate_json(mode, Head(raw_entries))
             rest == _deserialize_entries(mode, Tail(raw_entries))
         IN IF v.ok THEN <<v.val>> \o rest ELSE rest

(* ------------------- fetch_recent_snapshots: ordering ----------------- *)
\* key=lambda data: getattr(data, "last_trade_time", 0)
SortKey(data) ==
    IF "last_trade_time" \in DOMAIN data.f THEN data.f["last_trade_time"] ELSE 0

\* An insertion that puts x in front of the elements of equal key
RECURSIVE InsertDescUnstable(_, _)
InsertDescUnstable(s, x) ==
    IF s = <<>> THEN <<x>>
    ELSE IF SortKey(Head(s)) > SortKey(x)
         THEN <<Head(s)>> \o InsertDescUnstable(Tail(s), x)
         ELSE <<x>> \o s

\* One insertion of list.sort(key=SortKey, reverse=True): x goes behind
\* every element whose key is not smaller (the sort is stable).
RECURSIVE InsertDesc(_, _)
InsertDesc(s, x) ==
    IF s = <<>> THEN <<x>>
    ELSE IF SortKey(Head(s)) >= SortKey(x)
         THEN <<Head(s)>> \o InsertDesc(Tail(s), x)
         ELSE <<x>> \o s

RECURSIVE SortDesc(_)
SortDesc(s) ==
    IF s = <<>> THEN <<>>
    ELSE InsertDesc(SortDesc(SubSeq(s, 1, Len(s) - 1)), s[Len(s)])

\* The sort left out
NoSort(results) == results

\* results.sort(key=..., reverse=True)
sort(results) == SortDesc(results)

\* results[:n], the slice of Python with its negative stop
Slice(s, n) ==
    IF n >= 0 THEN SubSeq(s, 1, Min(n, Len(s)))
    ELSE SubSeq(s, 1, Max(Len(s) + n, 0))

\* The slice taken one element late
TruncateLate(results, max_snapshots) == Slice(results, max_snapshots + 1)

\* return results[: self._settings.max_snapshots]
Truncate(results, max_snapshots) == Slice(results, max_snapshots)

(* ------------------ redis_repository.py: keys, commands --------------- *)
\* str(n) of a non-negative int: its decimal digits, one character each
Digit == <<"0", "1", "2", "3", "4", "5", "6", "7", "8", "9">>

RECURSIVE str(_)
str(n) == IF n < 10 THEN <<Digit[n + 1]>>
          ELSE str(n \div 10) \o <<Digit[(n % 10) + 1]>>

\* The key without the packet type
KeyOfSecurity(key_prefix, security_id, packet_type) ==
    <<key_prefix, ":">> \o str(security_id)

\* f"{key_prefix}:{security_id}:{packet_type}" as the sequence of its
\* characters (the prefix counts as one); save_snapshot passes
\* str(market_data.security_id) for security_id.
build_market_data_key(key_prefix, security_id, packet_type) ==
    <<key_prefix, ":">> \o str(security_id) \o <<":">> \o str(packet_type)

\* Security ids of instruments other than the one the feed is about.
OtherSecurityIds == {1, 131}

Keys == {build_market_data_key(KeyPrefix, sid, DefaultPacketType(c)) :
            sid \in SecurityIds \cup OtherSecurityIds, c \in Variants}

\* The patterns readers pass to fetch: "*:13:*" and "*:13:61".
Patterns == {<<"*", ":", "1", "3", ":", "*">>,
             <<"*", ":", "1", "3", ":", "6", "1">>}

\* MATCH of SCAN, a glob in which "*" stands for any characters
RECURSIVE Match(_, _)
Match(k, pat) ==
    IF pat = <<>> THEN k = <<>>
    ELSE IF Head(pat) = "*"
         THEN Match(k, Tail(pat)) \/ (k # <<>> /\ Match(Tail(k), pat))
         ELSE k # <<>> /\ Head(k) = Head(pat) /\ Match(Tail(k), Tail(pat))

\* The database: a function on the keys that exist; a key holds its list
\* and its remaining time to live (NoExpiry when none is set).
NoExpiry == -1

Without(d, k) == [x \in DOMAIN d \ {k} |-> d[x]]

With(d, k, v) == [x \in DOMAIN d \cup {k} |-> IF x = k THEN v ELSE d[x]]

\* RPUSH in place of LPUSH: the value goes to the tail of the list
RPush(d, k, v) ==
    IF k \in DOMAIN d
    THEN With(d, k, [d[k] EXCEPT !.list = @ \o <<v>>])
    ELSE With(d, k, [list |-> <<v>>, ttl |-> NoExpiry])

\* LPUSH key value: creates the list when the key is absent
LPush(d, k, v) ==
    IF k \in DOMAIN d
    THEN With(d, k, [d[k] EXCEPT !.list = <<v>> \o @])
    ELSE With(d, k, [list |-> <<v>>, ttl |-> NoExpiry])

\* The range start..stop of a list of length n with Redis index rules,
\* as 1-based bounds (lo > hi when the range is empty).
RangeLo(n, start) == (IF start < 0 THEN Max(n + start, 0) ELSE start) + 1

RangeHi(n, stop) == (IF stop < 0 THEN n + stop ELSE Min(stop, n - 1)) + 1

\* LTRIM key start stop: a list trimmed to nothing is removed with its key
LTrim(d, k, start, stop) ==
    IF k \notin DOMAIN d THEN d
    ELSE LET n == Len(d[k].list)
             lo == RangeLo(n, start)
             hi == RangeHi(n, stop)
         IN IF lo > hi THEN Without(d, k)
            ELSE With(d, k, [d[k] EXCEPT !.list = SubSeq(@, lo, hi)])

\* EXPIRE key seconds NX: a key that has a time to live keeps it
ExpireNX(d, k, seconds) ==
    IF k \notin DOMAIN d THEN d
    ELSE IF d[k].ttl # NoExpiry THEN d
    ELSE IF seconds <= 0 THEN Without(d, k)
    ELSE With(d, k, [d[k] EXCEPT !.ttl = seconds])

\* EXPIRE key seconds: a non-positive time deletes the key
Expire(d, k, seconds) ==
    IF k \notin DOMAIN d THEN d
    ELSE IF seconds <= 0 THEN Without(d, k)
    ELSE With(d, k, [d[k] EXCEPT !.ttl = seconds])

\* LRANGE key start stop: an absent key reads as the empty list
LRange(d, k, start, stop) ==
    IF k \notin DOMAIN d THEN <<>>
    ELSE LET n == Len(d[k].list)
         IN SubSeq(d[k].list, RangeLo(n, start), RangeHi(n, stop))

\* The commands with the trim stopping one element late (0..max_length)
CommandsTrimLate(k, value, max_length, ttl_seconds) ==
    << [op |-> "lpush", key |-> k, value |-> value, a |-> 0, b |-> 0],
       [op |-> "ltrim", key |-> k, value |-> Garbage, a |-> 0,
        b |-> max_length],
       [op |-> "expire", key |-> k, value |-> Garbage, a |-> ttl_seconds,
        b |-> 0] >>

\* The commands lpush_with_trim queues on its pipeline, in order.
Commands(k, value, max_length, ttl_seconds) ==
    << [op |-> "lpush", key |-> k, value |-> value, a |-> 0, b |-> 0],
       [op |-> "ltrim", key |-> k, value |-> Garbage, a |-> 0,
        b |-> max_length - 1],
       [op |-> "expire", key |-> k, value |-> Garbage, a |-> ttl_seconds,
        b |-> 0] >>

Apply(d, c) ==
    CASE c.op = "lpush" -> LPush(d, c.key, c.value)
      [] c.op = "ltrim" -> LTrim(d, c.key, c.a, c.b)
      [] c.op = "expire" -> Expire(d, c.key, c.a)

RECURSIVE ApplyAll(_, _)
ApplyAll(d, cmds) ==
    IF cmds = <<>> THEN d ELSE ApplyAll(Apply(d, Head(cmds)), Tail(cmds))

\* client.pipeline(transaction=False): the commands run one by one
NoTransaction == FALSE

\* client.pipeline(transaction=True): the queued commands run as one
\* MULTI/EXEC unit on the server.
Transaction == TRUE

\* A server on which no key's time is ever up
NeverExpiring(d) == {}

\* Passing of one second on the server: times to live run down and a key
\* whose time is up is removed.
Expiring(d) == {k \in DOMAIN d : d[k].ttl = 1}

Aged(d) ==
    [k \in DOMAIN d \ Expiring(d) |->
        IF d[k].ttl = NoExpiry THEN d[k] ELSE [d[k] EXCEPT !.ttl = @ - 1]]

TtlOf(d, k) == IF k \in DOMAIN d THEN d[k].ttl ELSE -2

\* Sequences without repetition of at most n elements of S
Batches(S, n) ==
    {s \in UNION {[1..m -> S] : m \in 0..Min(n, Cardinality(S))} :
        \A i, j \in DOMAIN s : i # j => s[i] # s[j]}

Range(s) == {s[i] : i \in DOMAIN s}

(* ------------------- paytm_websocket.py: the decoder ------------------ *)
\* data[a:b] for 0 <= a <= b: the slice ends where data ends
PySlice(data, a, b) == SubSeq(data, a + 1, Min(b, Len(data)))

\* struct.calcsize of the formats in use; "B" is the format given here to
\* the reading of one byte by indexing, data[i]
calcsize(fmt) ==
    CASE fmt = "f" -> 4
      [] fmt = "I" -> 4
      [] fmt = "H" -> 2
      [] fmt = "B" -> 1

\* The bytes taken with the most significant one first
RECURSIVE BigEndian(_)
BigEndian(b) ==
    IF b = <<>> THEN 0 ELSE 256 * BigEndian(SubSeq(b, 1, Len(b) - 1)) + b[Len(b)]

\* "<": the first byte is the least significant.  A binary32 ("<f") is
\* named by its bit pattern, read as that number.
RECURSIVE LittleEndian(_)
LittleEndian(b) ==
    IF b = <<>> THEN 0 ELSE Head(b) + 256 * LittleEndian(Tail(b))

\* struct.unpack("<" + fmt, b)[0]; struct.error when b has not the size of
\* the format
unpack(fmt, b) ==
    IF Len(b) # calcsize(fmt) THEN [exc |-> "struct.error", v |-> 0]
    ELSE [exc |-> "", v |-> LittleEndian(b)]

\* One reading of a parser: the field it fills, the offset from pos and
\* the format.
Field(name, off, fmt) == [name |-> name, off |-> off, fmt |-> fmt]

\* struct.unpack("<f", data[pos + off : pos + off + 4])[0] and the like;
\* data[pos + off] for "B", an IndexError when the index is past the end
Read(data, pos, r) ==
    IF r.fmt = "B"
    THEN IF pos + r.off < Len(data)
         THEN [exc |-> "", v |-> data[pos + r.off + 1]]
         ELSE [exc |-> "IndexError", v |-> 0]
    ELSE unpack(r.fmt, PySlice(data, pos + r.off,
                               pos + r.off + calcsize(r.fmt)))

\* The exception of the first reading that raises, "" when none does.
RECURSIVE Raised(_, _, _)
Raised(reads, data, pos) ==
    IF reads = <<>> THEN ""
    ELSE LET x == Read(data, pos, Head(reads))
         IN IF x.exc # "" THEN x.exc ELSE Raised(Tail(reads), data, pos)

Values(reads, data, pos) ==
    [name \in {reads[i].name : i \in DOMAIN reads} |->
        Read(data, pos, CHOOSE r \in Range(reads) : r.name = name).v]

NoRecord == [cls |-> "", f |-> Garbage]

\* cls(**kwargs): packet_type is not passed and takes the class default
Construct(cls, kwargs) ==
    [cls |-> cls,
     f |-> [x \in Fields(cls) |->
              IF x = "packet_type" THEN DefaultPacketType(cls) ELSE kwargs[x]]]

Parse(cls, reads, data, pos) ==
    LET e == Raised(reads, data, pos)
    IN IF e # "" THEN [exc |-> e, val |-> NoRecord]
       ELSE [exc |-> "", val |-> Construct(cls, Values(reads, data, pos))]

LTPReads ==
    << Field("last_price", 0, "f"), Field("last_trade_time", 4, "I"),
       Field("security_id", 8, "I"), Field("tradable", 12, "B"),
       Field("mode", 13, "B"), Field("change_absolute", 14, "f"),
       Field("change_percent", 18, "f") >>

_parse_ltp(data, pos) == Parse("LTP", LTPReads, data, pos)

QuoteReads ==
    << Field("last_price", 0, "f"), Field("last_trade_time", 4, "I"),
       Field("security_id", 8, "I"), Field("tradable", 12, "B"),
       Field("mode", 13, "B"), Field("last_traded_quantity", 14, "I"),
       Field("average_traded_price", 18, "f"),
       Field("volume_traded", 22, "I"),
       Field("total_buy_quantity", 26, "I"),
       Field("total_sell_quantity", 30, "I"), Field("open", 34, "f"),
       Field("close", 38, "f"), Field("high", 42, "f"),
       Field("low", 46, "f"), Field("change_percent", 50, "f"),
       Field("change_absolute", 54, "f"), Field("week52_high", 58, "f"),
       Field("week52_low", 62, "f") >>

_parse_quote(data, pos) == Parse("Quote", QuoteReads, data, pos)

\* MarketDepth: the readings of one level, from depth_pos
DepthReads ==
    << Field("buy_quantity", 0, "I"), Field("sell_quantity", 4, "I"),
       Field("buy_orders", 8, "H"), Field("sell_orders", 10, "H"),
       Field("buy_price", 12, "f"), Field("sell_price", 16, "f") >>

\* The readings of _parse_full after pos += 100
FullReads ==
    << Field("last_price", 0, "f"), Field("last_trade_time", 4, "I"),
       Field("security_id", 8, "I"), Field("tradable", 12, "B"),
       Field("mode", 13, "B"), Field("last_traded_quantity", 14, "I"),
       Field("average_traded_price", 18, "f"),
       Field("volume_traded", 22, "I"),
       Field("total_buy_quantity", 26, "I"),
       Field("total_sell_quantity", 30, "I"), Field("open", 34, "f"),
       Field("close", 38, "f"), Field("high", 42, "f"),
       Field("low", 46, "f"), Field("change_percent", 50, "f"),
       Field("change_absolute", 54, "f"), Field("week52_high", 58, "f"),
       Field("week52_low", 62, "f"), Field("oi", 66, "I"),
       Field("change_oi", 70, "I") >>

\* for i in range(5): six readings at depth_pos, depth_pos += 20; then the
\* readings of the rest at pos + 100.  The first reading that raises ends
\* the call.
_parse_full(data, pos) ==
    LET depth_pos(i) == pos + 20 * i
        short == {i \in 0..4 : Raised(DepthReads, data, depth_pos(i)) # ""}
        first == CHOOSE i \in short : \A j \in short : i <= j
        e == IF short # {} THEN Raised(DepthReads, data, depth_pos(first))
             ELSE Raised(FullReads, data, pos + 100)
        depth == [i \in 1..5 |-> Values(DepthReads, data, depth_pos(i - 1))]
    IN IF e # "" THEN [exc |-> e, val |-> NoRecord]
       ELSE [exc |-> "",
             val |-> Construct("Full",
                        [x \in Required("Full") |->
                           IF x = "market_depth" THEN depth
                           ELSE Values(FullReads, data, pos + 100)[x]])]

IndexLTPReads ==
    << Field("last_price", 0, "f"), Field("last_update_time", 4, "I"),
       Field("security_id", 8, "I"), Field("tradable", 12, "B"),
       Field("mode", 13, "B"), Field("change_absolute", 14, "f"),
       Field("change_percent", 18, "f") >>

_parse_index_ltp(data, pos) == Parse("IndexLTP", IndexLTPReads, data, pos)

IndexQuoteReads ==
    << Field("last_price", 0, "f"), Field("security_id", 4, "I"),
       Field("tradable", 8, "B"), Field("mode", 9, "B"),
       Field("open", 10, "f"), Field("close", 14, "f"),
       Field("high", 18, "f"), Field("low", 22, "f"),
       Field("change_percent", 26, "f"), Field("change_absolute", 30, "f"),
       Field("week52_high", 34, "f"), Field("week52_low", 38, "f") >>

_parse_index_quote(data, pos) ==
    Parse("IndexQuote", IndexQuoteReads, data, pos)

IndexFullReads ==
    << Field("last_price", 0, "f"), Field("security_id", 4, "I"),
       Field("tradable", 8, "B"), Field("mode", 9, "B"),
       Field("open", 10, "f"), Field("close", 14, "f"),
       Field("high", 18, "f"), Field("low", 22, "f"),
       Field("change_percent", 26, "f"), Field("change_absolute", 30, "f"),
       Field("last_trade_time", 34, "I") >>

_parse_index_full(data, pos) ==
    Parse("IndexFull", IndexFullReads, data, pos)

\* The packet types parse_message has a branch for.
KnownTags == {61, 62, 63, 64, 65, 66}

\* The branch of parse_message for a packet type: the parser it calls
Dispatch(packet_type, data, pos) ==
    CASE packet_type = 61 -> _parse_ltp(data, pos)
      [] packet_type = 62 -> _parse_quote(data, pos)
      [] packet_type = 63 -> _parse_full(data, pos)
      [] packet_type = 64 -> _parse_index_ltp(data, pos)
      [] packet_type = 65 -> _parse_index_quote(data, pos)
      [] packet_type = 66 -> _parse_index_full(data, pos)

\* The advance with the one of QUOTE two bytes short
AdvanceShort(packet_type) ==
    CASE packet_type = 61 -> 22
      [] packet_type = 62 -> 64
      [] packet_type = 63 -> 174
      [] packet_type = 64 -> 22
      [] packet_type = 65 -> 42
      [] packet_type = 66 -> 38

\* pos += 22, 66, 174, 22, 42, 38 of the branches
Advance(packet_type) ==
    CASE packet_type = 61 -> 22
      [] packet_type = 62 -> 66
      [] packet_type = 63 -> 174
      [] packet_type = 64 -> 22
      [] packet_type = 65 -> 42
      [] packet_type = 66 -> 38

\* continue in place of break in the else branch
UnknownTagSkipped == FALSE

\* else: ... break: an unknown packet type ends the loop
UnknownTagBreaks == TRUE

(* ------------------ the feed: frames on the wire ---------------------- *)
\* The layout of a packet on the wire after its tag byte, in offset order;
\* a Full packet begins with five blocks of DepthWire.
DepthWire ==
    << Field("buy_quantity", 0, "I"), Field("sell_quantity", 4, "I"),
       Field("buy_orders", 8, "H"), Field("sell_orders", 10, "H"),
       Field("buy_price", 12, "f"), Field("sell_price", 16, "f") >>

QuoteWire(base) ==
    << Field("last_price", base, "f"),
       Field("last_trade_time", base + 4, "I"),
       Field("security_id", base + 8, "I"),
       Field("tradable", base + 12, "B"), Field("mode", base + 13, "B"),
       Field("last_traded_quantity", base + 14, "I"),
       Field("average_traded_price", base + 18, "f"),
       Field("volume_traded", base + 22, "I"),
       Field("total_buy_quantity", base + 26, "I"),
       Field("total_sell_quantity", base + 30, "I"),
       Field("open", base + 34, "f"), Field("close", base + 38, "f"),
       Field("high", base + 42, "f"), Field("low", base + 46, "f"),
       Field("change_percent", base + 50, "f"),
       Field("change_absolute", base + 54, "f"),
       Field("week52_high", base + 58, "f"),
       Field("week52_low", base + 62, "f") >>

Wire(cls) ==
    CASE cls = "LTP" ->
           << Field("last_price", 0, "f"), Field("last_trade_time", 4, "I"),
              Field("security_id", 8, "I"), Field("tradable", 12, "B"),
              Field("mode", 13, "B"), Field("change_absolute", 14, "f"),
              Field("change_percent", 18, "f") >>
      [] cls = "Quote" -> QuoteWire(0)
      [] cls = "Full" ->
           QuoteWire(100) \o
           << Field("oi", 166, "I"), Field("change_oi", 170, "I") >>
      [] cls = "IndexLTP" ->
           << Field("last_price", 0, "f"), Field("last_update_time", 4, "I"),
              Field("security_id", 8, "I"), Field("tradable", 12, "B"),
              Field("mode", 13, "B"), Field("change_absolute", 14, "f"),
              Field("change_percent", 18, "f") >>
      [] cls = "IndexQuote" ->
           << Field("last_price", 0, "f"), Field("security_id", 4, "I"),
              Field("tradable", 8, "B"), Field("mode", 9, "B"),
              Field("open", 10, "f"), Field("close", 14, "f"),
              Field("high", 18, "f"), Field("low", 22, "f"),
              Field("change_percent", 26, "f"),
              Field("change_absolute", 30, "f"),
              Field("week52_high", 34, "f"), Field("week52_low", 38, "f") >>
      [] cls = "IndexFull" ->
           << Field("last_price", 0, "f"), Field("security_id", 4, "I"),
              Field("tradable", 8, "B"), Field("mode", 9, "B"),
              Field("open", 10, "f"), Field("close", 14, "f"),
              Field("high", 18, "f"), Field("low", 22, "f"),
              Field("change_percent", 26, "f"),
              Field("change_absolute", 30, "f"),
              Field("last_trade_time", 34, "I") >>

\* A value of n bytes whose bytes, the least significant first, are those
\* of the pattern of a seed from offset off on.  No byte exceeds 126, so a
\* value of four bytes stays below 2^31.
RECURSIVE Sample(_, _, _)
Sample(seed, off, n) ==
    IF n = 0 THEN 0
    ELSE ((seed + off) % 127) + 256 * Sample(seed, off + 1, n - 1)

SampleOf(seed, reads, base) ==
    [name \in {reads[i].name : i \in DOMAIN reads} |->
        LET r == CHOOSE r \in Range(reads) : r.name = name
        IN Sample(seed, base + r.off, calcsize(r.fmt))]

\* The record of a class whose fields hold the sample values of a seed.
WireRecord(cls, seed) ==
    [cls |-> cls,
     f |-> [x \in Fields(cls) |->
              CASE x = "packet_type" -> DefaultPacketType(cls)
                [] x = "market_depth" ->
                     [i \in 1..5 |-> SampleOf(seed, DepthWire, 20 * (i - 1))]
                [] OTHER -> SampleOf(seed, Wire(cls), 0)[x]]]

Seeds == 1..MaxSeed

WireRecords == {WireRecord(cls, seed) : cls \in Variants, seed \in Seeds}

\* The n bytes of a value, the least significant first
RECURSIVE Bytes(_, _)
Bytes(v, n) == IF n = 0 THEN <<>> ELSE <<v % 256>> \o Bytes(v \div 256, n - 1)

RECURSIVE EncodeFields(_, _)
EncodeFields(reads, values) ==
    IF reads = <<>> THEN <<>>
    ELSE Bytes(values[Head(reads).name], calcsize(Head(reads).fmt))
         \o EncodeFields(Tail(reads), values)

RECURSIVE EncodeDepth(_)
EncodeDepth(depth) ==
    IF depth = <<>> THEN <<>>
    ELSE EncodeFields(DepthWire, Head(depth)) \o EncodeDepth(Tail(depth))

\* One packet: the tag byte, then the fields at their offsets.
EncodePacket(r) ==
    <<r.f["packet_type"]>>
    \o (IF r.cls = "Full" THEN EncodeDepth(r.f["market_depth"]) ELSE <<>>)
    \o EncodeFields(Wire(r.cls), r.f)

\* A frame: packets one after the other with nothing between them.
RECURSIVE Encode(_)
Encode(rs) ==
    IF rs = <<>> THEN <<>> ELSE EncodePacket(Head(rs)) \o Encode(Tail(rs))

Frames == UNION {[1..n -> WireRecords] : n \in 0..MaxPackets}

\* Bytes that are no packet type, and what may follow such a byte.
UnknownTags == {60, 67}

Tails == {<<>>, <<61>>, EncodePacket(WireRecord("LTP", 1))}

(* -------------------------------- state ------------------------------- *)
VARIABLES
    settings,     \* CacheSettings of the store
    union_mode,   \* union resolution of the installed validator
    db,           \* the Redis database
    pc,           \* save_snapshot callers: "idle" or "exec"
    key,          \* save_snapshot: key of the record being saved
    payload,      \* save_snapshot: serialized form of the record
    pipe,         \* commands queued on a caller's pipeline, not yet run
    nsaves,       \* number of save_snapshot calls made
    saved,        \* per key, the payloads of the completed saves since
                  \* the key last came into existence
    last_commit,  \* key and time to live found by the last transaction
    fpc,          \* fetch_recent_snapshots callers: "idle", "scan", "read",
                  \* "return" or "done"
    pattern,      \* pattern of the fetch
    cursor,       \* scan_keys: cursor
    keys,         \* keys of the current batch not yet read
    seen,         \* server side of the scan: keys returned so far
    must,         \* keys present when the scan began
    results,      \* results list of the fetch
    raw,          \* every element the fetch has read, in read order
    merged,       \* results as it was before the sort
    ret,          \* value returned by the fetch
    parse_message,  \* the locals of parse_message: data (the bytes of
                  \* the frame), pos (the cursor) and parsed_data
    dpc,          \* parse_message: "idle", "loop", "returned", or the name
                  \* of the exception that left it
    sent,         \* the records the feed put into the frame
    whole,        \* the bytes of those records
    _cache_settings,  \* redis_repository: the module's settings, or None
    _redis_instance,  \* redis_repository: the module's client, or None
    _redis_lock,      \* redis_repository: holder of the lock, or None
    cpc,          \* callers of get_redis_client: position
    op,           \* the operation a caller is in
    client,       \* the client a caller was given
    nconstructed, \* number of clients redis.from_url has built
    issued,       \* backend commands a caller's operation has issued
    error,        \* the exception a store operation raised to its caller
    nfailed,      \* failed backend calls of a store operation
    applied,      \* savers whose failed transaction the server had run
    connect,      \* the locals of connect: pc (its position), message (the
                  \* message received last), parsed_data (the records of
                  \* the frame not yet saved) and the number of messages
                  \* received
    journal       \* what connect has done: the records parse_message
                  \* returned to it, the records it called save_snapshot
                  \* with, and the number of those when the frame came

storeVars == <<settings, union_mode, db, pc, key, payload, pipe, nsaves, saved,
               last_commit, fpc, pattern, cursor, keys, seen, must, results,
               raw, merged, ret>>

decVars == <<parse_message, dpc, sent, whole>>

clientVars == <<_cache_settings, _redis_instance, _redis_lock, cpc, op, client,
                nconstructed, issued>>

faultVars == <<error, nfailed, applied>>

connVars == <<connect, journal>>

otherVars == <<decVars, clientVars, faultVars, connVars>>

vars == <<storeVars, decVars, clientVars, faultVars, connVars>>

saveVars == <<pc, key, payload, pipe, nsaves, saved, last_commit>>

fetchVars == <<fpc, pattern, cursor, keys, seen, must, results, raw, merged,
               ret>>

NoKey == <<>>

NoCommit == [key |-> NoKey, ttl_before |-> -2]

\* None, where a string or a holder of the lock is expected
None == "None"

\* None, where a client is expected
NoClient == [id |-> 0, cache_uri |-> None]

\* The values of CACHE_URI; get_redis_client reads nothing else of the
\* settings, which stand here as their cache_uri.
Uris == {"redis://a", "redis://b"}

Callers == {"c1", "c2"}

Tasks == Savers \cup Fetchers

\* The store as CacheSettings with the given SNAPSHOT_TTL_SECONDS leaves it,
\* over an empty database.
StoreInitWith(ttl_seconds) ==
    /\ settings \in [ttl_seconds : {ttl_seconds},
                     max_snapshots : 1..MaxSnapshots,
                     scan_batch_size : {MaxScanBatch},
                     key_prefix : {KeyPrefix}]
    /\ union_mode \in {"leftmost", "most_fields"}
    /\ db = <<>>
    /\ pc = [p \in Savers |-> "idle"]
    /\ key = [p \in Savers |-> NoKey]
    /\ payload = [p \in Savers |-> Garbage]
    /\ pipe = [p \in Savers |-> <<>>]
    /\ nsaves = 0
    /\ saved = [k \in Keys |-> <<>>]
    /\ last_commit = NoCommit
    /\ fpc = [f \in Fetchers |-> "idle"]
    /\ pattern = [f \in Fetchers |-> <<"*">>]
    /\ cursor = [f \in Fetchers |-> 0]
    /\ keys = [f \in Fetchers |-> <<>>]
    /\ seen = [f \in Fetchers |-> {}]
    /\ must = [f \in Fetchers |-> {}]
    /\ results = [f \in Fetchers |-> <<>>]
    /\ raw = [f \in Fetchers |-> <<>>]
    /\ merged = [f \in Fetchers |-> <<>>]
    /\ ret = [f \in Fetchers |-> <<>>]

StoreInit == StoreInitWith(MaxTtl)

\* parse_message has not been called.
DecoderIdle ==
    /\ parse_message = [data |-> <<>>, pos |-> 0, parsed_data |-> <<>>]
    /\ dpc = "idle"
    /\ sent = <<>>
    /\ whole = <<>>

\* redis_repository as the import leaves it, with nobody calling.
ClientInit ==
    /\ _cache_settings = None
    /\ _redis_instance = NoClient
    /\ _redis_lock = None
    /\ cpc = [c \in Callers |-> "idle"]
    /\ op = [c \in Callers |-> ""]
    /\ client = [c \in Callers |-> NoClient]
    /\ nconstructed = 0
    /\ issued = [c \in Callers |-> 0]

\* main() of py-app has called configure_cache and built the store; the
\* client the store's commands go through is there.
ClientReady ==
    /\ _cache_settings \in Uris
    /\ _redis_instance = [id |-> 1, cache_uri |-> _cache_settings]
    /\ _redis_lock = None
    /\ cpc = [c \in Callers |-> "idle"]
    /\ op = [c \in Callers |-> ""]
    /\ client = [c \in Callers |-> NoClient]
    /\ nconstructed = 1
    /\ issued = [c \in Callers |-> 0]

NoFault ==
    /\ error = [x \in Tasks |-> ""]
    /\ nfailed = [x \in Tasks |-> 0]
    /\ applied = [p \in Savers |-> FALSE]

NoMessage == [kind |-> None, data |-> <<>>]

\* connect is not looked at: the records it hands to save_snapshot come
\* from Feed.
ConnectIdle ==
    /\ connect = [pc |-> "idle", message |-> NoMessage, parsed_data |-> <<>>,
                  received |-> 0]
    /\ journal = [decoded |-> <<>>, handed |-> <<>>, mark |-> 0]

Init ==
    /\ StoreInit
    /\ DecoderIdle
    /\ ClientReady
    /\ _cache_settings = "redis://a"
    /\ NoFault
    /\ ConnectIdle

(* ------------------------------- actions ------------------------------ *)
\* save_snapshot up to the await of pipe.execute(): the key and the payload
\* are built and the three commands are queued.
SaveCall(p, market_data) ==
    /\ pc[p] = "idle"
    /\ nsaves < MaxSaves
    /\ LET k == build_market_data_key(settings.key_prefix,
                                      market_data.f["security_id"],
                                      market_data.f["packet_type"])
       IN /\ key' = [key EXCEPT ![p] = k]
          /\ payload' = [payload EXCEPT ![p] = dump_json(market_data)]
          /\ pipe' = [pipe EXCEPT ![p] =
                        Commands(k, dump_json(market_data),
                                 settings.max_snapshots, settings.ttl_seconds)]
    /\ pc' = [pc EXCEPT ![p] = "exec"]
    /\ nsaves' = nsaves + 1
    /\ UNCHANGED <<settings, union_mode, db, saved, last_commit>>
    /\ UNCHANGED fetchVars
    /\ UNCHANGED otherVars

\* pipe.execute(): the server runs the queued commands, all of them in one
\* step when the pipeline is a transaction; the save returns when the last
\* one has run.
Execute(p) ==
    /\ pc[p] = "exec"
    /\ LET n == IF Transaction THEN Len(pipe[p]) ELSE 1
           cmds == SubSeq(pipe[p], 1, n)
           rest == SubSeq(pipe[p], n + 1, Len(pipe[p]))
       IN /\ db' = ApplyAll(db, cmds)
          /\ pipe' = [pipe EXCEPT ![p] = rest]
          /\ last_commit' =
               IF pipe[p][1].op = "lpush"
               THEN [key |-> key[p], ttl_before |-> TtlOf(db, key[p])]
               ELSE last_commit
          /\ IF rest = <<>>
             THEN /\ pc' = [pc EXCEPT ![p] = "idle"]
                  /\ saved' = [saved EXCEPT ![key[p]] = Append(@, payload[p])]
                  /\ key' = [key EXCEPT ![p] = NoKey]
                  /\ payload' = [payload EXCEPT ![p] = Garbage]
             ELSE UNCHANGED <<pc, saved, key, payload>>
    /\ UNCHANGED <<settings, union_mode, nsaves>>
    /\ UNCHANGED fetchVars
    /\ UNCHANGED otherVars

\* fetch_recent_snapshots is called; scan_keys starts at cursor 0.
FetchCall(f, pat) ==
    /\ fpc[f] = "idle"
    /\ fpc' = [fpc EXCEPT ![f] = "scan"]
    /\ pattern' = [pattern EXCEPT ![f] = pat]
    /\ cursor' = [cursor EXCEPT ![f] = 0]
    /\ must' = [must EXCEPT ![f] = {k \in DOMAIN db : Match(k, pat)}]
    /\ UNCHANGED <<keys, seen, results, raw, merged, ret>>
    /\ UNCHANGED <<settings, union_mode, db>>
    /\ UNCHANGED saveVars
    /\ UNCHANGED otherVars

\* scan_keys with "if cursor == 0: break" standing before "if keys: yield":
\* the batch that comes with the cursor 0 is not yielded
ScanStepBreakFirst(f) ==
    /\ fpc[f] = "scan"
    /\ \E batch \in Batches({k \in DOMAIN db : Match(k, pattern[f])} \ seen[f],
                            settings.scan_batch_size) :
       \E next \in {0, 1} :
          /\ next = 0 => (must[f] \cap DOMAIN db) \subseteq (seen[f] \cup Range(batch))
          /\ cursor' = [cursor EXCEPT ![f] = next]
          /\ keys' = [keys EXCEPT ![f] = IF next = 0 THEN <<>> ELSE batch]
          /\ seen' = [seen EXCEPT ![f] = @ \cup Range(batch)]
          /\ fpc' = [fpc EXCEPT ![f] =
                       IF next = 0 THEN "return"
                       ELSE IF batch # <<>> THEN "read" ELSE "scan"]
    /\ UNCHANGED <<pattern, must, results, raw, merged, ret>>
    /\ UNCHANGED <<settings, union_mode, db>>
    /\ UNCHANGED saveVars
    /\ UNCHANGED otherVars

\* scan_keys: one client.scan(cursor, match, count).  The server returns
\* matching keys it has not returned before, at most count of them, in any
\* order, and a cursor; the cursor is 0 only when every key that has been
\* there since the scan began was returned.  An empty batch is not yielded.
ScanStep(f) ==
    /\ fpc[f] = "scan"
    /\ \E batch \in Batches({k \in DOMAIN db : Match(k, pattern[f])} \ seen[f],
                            settings.scan_batch_size) :
       \E next \in {0, 1} :
          /\ next = 0 => (must[f] \cap DOMAIN db) \subseteq (seen[f] \cup Range(batch))
          /\ cursor' = [cursor EXCEPT ![f] = next]
          /\ keys' = [keys EXCEPT ![f] = batch]
          /\ seen' = [seen EXCEPT ![f] = @ \cup Range(batch)]
          /\ fpc' = [fpc EXCEPT ![f] =
                       IF batch # <<>> THEN "read"
                       ELSE IF next = 0 THEN "return" ELSE "scan"]
    /\ UNCHANGED <<pattern, must, results, raw, merged, ret>>
    /\ UNCHANGED <<settings, union_mode, db>>
    /\ UNCHANGED saveVars
    /\ UNCHANGED otherVars

\* The read of a key with an expire(key, ttl_seconds) after the lrange: a
\* fetch that keeps what it reads alive
ReadKeyTouch(f) ==
    /\ fpc[f] = "read"
    /\ LET raw_entries == LRange(db, Head(keys[f]), 0,
                                 settings.max_snapshots - 1)
       IN /\ results' = [results EXCEPT ![f] =
                           @ \o _deserialize_entries(union_mode, raw_entries)]
          /\ raw' = [raw EXCEPT ![f] = @ \o raw_entries]
    /\ keys' = [keys EXCEPT ![f] = Tail(@)]
    /\ fpc' = [fpc EXCEPT ![f] =
                 IF Tail(keys[f]) # <<>> THEN "read"
                 ELSE IF cursor[f] = 0 THEN "return" ELSE "scan"]
    /\ UNCHANGED <<pattern, cursor, seen, must, merged, ret>>
    /\ db' = Expire(db, Head(keys[f]), settings.ttl_seconds)
    /\ UNCHANGED <<settings, union_mode>>
    /\ UNCHANGED saveVars
    /\ UNCHANGED otherVars

\* for key in keys: one lrange(key, 0, max_snapshots - 1) and the extension
\* of results by the entries that deserialize.
ReadKey(f) ==
    /\ fpc[f] = "read"
    /\ LET raw_entries == LRange(db, Head(keys[f]), 0,
                                 settings.max_snapshots - 1)
       IN /\ results' = [results EXCEPT ![f] =
                           @ \o _deserialize_entries(union_mode, raw_entries)]
          /\ raw' = [raw EXCEPT ![f] = @ \o raw_entries]
    /\ keys' = [keys EXCEPT ![f] = Tail(@)]
    /\ fpc' = [fpc EXCEPT ![f] =
                 IF Tail(keys[f]) # <<>> THEN "read"
                 ELSE IF cursor[f] = 0 THEN "return" ELSE "scan"]
    /\ UNCHANGED <<pattern, cursor, seen, must, merged, ret>>
    /\ UNCHANGED <<settings, union_mode, db>>
    /\ UNCHANGED saveVars
    /\ UNCHANGED otherVars

\* After the scan: results is sorted in place and its head is returned.
FetchReturn(f) ==
    /\ fpc[f] = "return"
    /\ merged' = [merged EXCEPT ![f] = results[f]]
    /\ results' = [results EXCEPT ![f] = sort(@)]
    /\ ret' = [ret EXCEPT ![f] =
                 Truncate(sort(results[f]), settings.max_snapshots)]
    /\ fpc' = [fpc EXCEPT ![f] = "done"]
    /\ UNCHANGED <<pattern, cursor, keys, seen, must, raw>>
    /\ UNCHANGED <<settings, union_mode, db>>
    /\ UNCHANGED saveVars
    /\ UNCHANGED otherVars

\* One second passes on the server.
Tick ==
    /\ DOMAIN db # {}
    /\ db' = Aged(db)
    /\ saved' = [k \in Keys |-> IF k \in Expiring(db) THEN <<>> ELSE saved[k]]
    /\ UNCHANGED <<settings, union_mode, pc, key, payload, pipe, nsaves,
                   last_commit>>
    /\ UNCHANGED fetchVars
    /\ UNCHANGED otherVars

\* Another writer of the database overwrites one element of a list with a
\* value that is not the JSON of a record (LSET).
ForeignLSet(k, i) ==
    /\ k \in DOMAIN db
    /\ i \in 1..Len(db[k].list)
    /\ db[k].list[i] # Garbage
    /\ db' = With(db, k, [db[k] EXCEPT !.list[i] = Garbage])
    /\ UNCHANGED <<settings, union_mode>>
    /\ UNCHANGED saveVars
    /\ UNCHANGED fetchVars
    /\ UNCHANGED otherVars

\* The feed hands a record to save_snapshot; the price of the record is
\* the number of the save among those its key has seen, so that the
\* snapshots of one key can be told apart.
Feed(p) ==
    \E n \in 1..MaxSaves : \E r \in FeedRecords(n) :
        /\ n = Len(saved[build_market_data_key(settings.key_prefix,
                           r.f["security_id"], r.f["packet_type"])]) + 1
        /\ SaveCall(p, r)

\* The store under concurrent writers: save_snapshot callers and the clock.
NextSave ==
    \/ \E p \in Savers : Feed(p)
    \/ \E p \in Savers : Execute(p)
    \/ Tick

SaveSpec == Init /\ [][NextSave]_vars

\* The feed consumer saving one record at a time while a reader fetches.
Next ==
    \/ nsaves < MaxFeed /\ Feed("s1")
    \/ Execute("s1")
    \/ \E f \in Fetchers : \E pat \in Patterns : FetchCall(f, pat)
    \/ \E f \in Fetchers : ScanStep(f)
    \/ \E f \in Fetchers : ReadKey(f)
    \/ \E f \in Fetchers : FetchReturn(f)
    \/ Tick

Spec == Init /\ [][Next]_vars

NextCorrupt ==
    \/ Next
    \/ \E k \in Keys : \E i \in 1..MaxSnapshots : ForeignLSet(k, i)

SpecCorrupt == Init /\ [][NextCorrupt]_vars

\* The backend answers every lrange, and a fetch that has its answer runs
\* on to its next await or to its return: the event loop resumes it.
\* Nothing obliges the backend to return the cursor 0.
LiveSpec ==
    /\ Spec
    /\ \A f \in Fetchers : WF_vars(ReadKey(f)) /\ WF_vars(FetchReturn(f))

\* The store with a time to live of more than two seconds: the feed consumer
\* saving while the clock runs.
StaleInit ==
    /\ StoreInitWith(MaxTtl + 1)
    /\ DecoderIdle
    /\ ClientReady
    /\ _cache_settings = "redis://a"
    /\ NoFault
    /\ ConnectIdle

NextStale ==
    \/ Feed("s1")
    \/ Execute("s1")
    \/ Tick

StaleSpec == StaleInit /\ [][NextStale]_vars

(* --------------------- parse_message, turn by turn -------------------- *)
storeIdle == UNCHANGED <<storeVars, clientVars, faultVars, connVars>>

\* A turn of the loop that parses a packet: the model is appended and the
\* cursor goes past the tag byte and the packet.
ParsePacket ==
    /\ dpc = "loop"
    /\ parse_message.pos < Len(parse_message.data)
    /\ LET data == parse_message.data
           packet_type == data[parse_message.pos + 1]
           pos == parse_message.pos + 1
       IN /\ packet_type \in KnownTags
          /\ Dispatch(packet_type, data, pos).exc = ""
          /\ parse_message' =
               [parse_message EXCEPT
                  !.parsed_data = Append(@, Dispatch(packet_type, data, pos).val),
                  !.pos = pos + Advance(packet_type)]
    /\ UNCHANGED <<dpc, sent, whole>>
    /\ storeIdle

\* A turn that ends the loop with break: the packet type is unknown, or a
\* parser raised struct.error.  parsed_data is returned.
ParseBreak ==
    /\ dpc = "loop"
    /\ parse_message.pos < Len(parse_message.data)
    /\ LET data == parse_message.data
           packet_type == data[parse_message.pos + 1]
           pos == parse_message.pos + 1
       IN /\ \/ packet_type \notin KnownTags
             \/ /\ packet_type \in KnownTags
                /\ Dispatch(packet_type, data, pos).exc = "struct.error"
          /\ parse_message' = [parse_message EXCEPT !.pos = pos]
          /\ dpc' = IF packet_type \notin KnownTags /\ ~UnknownTagBreaks
                    THEN "loop" ELSE "returned"
    /\ UNCHANGED <<sent, whole>>
    /\ storeIdle

\* A turn in which a parser raises what except struct.error does not
\* catch: the exception leaves parse_message.
ParseRaise ==
    /\ dpc = "loop"
    /\ parse_message.pos < Len(parse_message.data)
    /\ LET data == parse_message.data
           packet_type == data[parse_message.pos + 1]
           pos == parse_message.pos + 1
       IN /\ packet_type \in KnownTags
          /\ Dispatch(packet_type, data, pos).exc \notin {"", "struct.error"}
          /\ parse_message' = [parse_message EXCEPT !.pos = pos]
          /\ dpc' = Dispatch(packet_type, data, pos).exc
    /\ UNCHANGED <<sent, whole>>
    /\ storeIdle

\* while pos < len(data) is false: parsed_data is returned.
ParseEnd ==
    /\ dpc = "loop"
    /\ parse_message.pos >= Len(parse_message.data)
    /\ dpc' = "returned"
    /\ UNCHANGED <<parse_message, sent, whole>>
    /\ storeIdle

\* parse_message is called with a frame of the feed: whole packets cut
\* at some byte, or whole packets, a byte that is no packet type, and more.
DecodeInit ==
    /\ StoreInit
    /\ settings.max_snapshots = MaxSnapshots
    /\ union_mode = "most_fields"
    /\ ClientReady
    /\ _cache_settings = "redis://a"
    /\ NoFault
    /\ ConnectIdle
    /\ \E rs \in Frames :
          /\ sent = rs
          /\ whole = Encode(rs)
          /\ \E bytes \in
                 {SubSeq(Encode(rs), 1, c) : c \in 0..Len(Encode(rs))}
                 \cup {Encode(rs) \o <<t>> \o tail :
                         t \in UnknownTags, tail \in Tails} :
                parse_message = [data |-> bytes, pos |-> 0,
                                 parsed_data |-> <<>>]
    /\ dpc = "loop"

NextDecode ==
    \/ ParsePacket
    \/ ParseBreak
    \/ ParseRaise
    \/ ParseEnd

DecodeSpec == DecodeInit /\ [][NextDecode]_vars

(* ------------- redis_repository.py: the shared client ----------------- *)
clientIdle == UNCHANGED <<storeVars, decVars, faultVars, connVars>>

\* configure_cache(settings)
configure_cache(s) ==
    /\ _cache_settings' = s
    /\ UNCHANGED <<_redis_instance, _redis_lock, cpc, op, client, nconstructed,
                   issued>>
    /\ clientIdle

\* get_redis_client without "if _cache_settings is None: raise"
ConfigUnchecked == FALSE

\* if _cache_settings is None: raise RuntimeError(...)
ConfigChecked == TRUE

\* get_redis_client up to "async with _redis_lock", called for operation
\* o when the settings are cs: RuntimeError without settings; the client
\* that is there is returned; otherwise the caller goes for the lock.
get_redis_client(c, o, cs) ==
    /\ cpc[c] = "idle"
    /\ op' = [op EXCEPT ![c] = o]
    /\ _cache_settings' = cs
    /\ IF ConfigChecked /\ cs = None
       THEN /\ cpc' = [cpc EXCEPT ![c] = "RuntimeError"]
            /\ UNCHANGED client
       ELSE IF _redis_instance # NoClient
            THEN /\ cpc' = [cpc EXCEPT ![c] = "client"]
                 /\ client' = [client EXCEPT ![c] = _redis_instance]
            ELSE /\ cpc' = [cpc EXCEPT ![c] = "lock"]
                 /\ UNCHANGED client
    /\ UNCHANGED <<_redis_instance, _redis_lock, nconstructed, issued>>
    /\ clientIdle

\* save_snapshot or fetch_recent_snapshots at
\* client = await self._client_or_default(): the repository the store
\* built holds no client (self._client is None), so get_redis_client is
\* awaited.
_client_or_default(c, o) == get_redis_client(c, o, _cache_settings)

\* health() and get_configured_redis_client() of market-api:
\* configure_cache(settings), then get_redis_client()
health(c, s) == get_redis_client(c, "health", s)

\* async with _redis_lock: the caller may have to wait; it goes on when
\* nobody holds the lock.
Acquire(c) ==
    /\ cpc[c] = "lock"
    /\ _redis_lock = None
    /\ _redis_lock' = c
    /\ cpc' = [cpc EXCEPT ![c] = "locked"]
    /\ UNCHANGED <<_cache_settings, _redis_instance, op, client, nconstructed,
                   issued>>
    /\ clientIdle

\* The client built under the lock whatever _redis_instance is
NoRecheck == FALSE

\* if _redis_instance is None, under the lock
Recheck == TRUE

\* Under the lock: redis.from_url(...) if there is still no client; the
\* lock is released and _redis_instance returned.
CreateClient(c) ==
    /\ cpc[c] = "locked"
    /\ IF Recheck => _redis_instance = NoClient
       THEN /\ _redis_instance' = [id |-> nconstructed + 1,
                                   cache_uri |-> _cache_settings]
            /\ nconstructed' = nconstructed + 1
       ELSE UNCHANGED <<_redis_instance, nconstructed>>
    /\ client' = [client EXCEPT ![c] = _redis_instance']
    /\ _redis_lock' = None
    /\ cpc' = [cpc EXCEPT ![c] = "client"]
    /\ UNCHANGED <<_cache_settings, op, issued>>
    /\ clientIdle

\* The operation issues its backend command on the client it was given:
\* the transaction of a save, the first scan of a fetch, the ping of
\* health.
Use(c) ==
    /\ cpc[c] = "client"
    /\ issued' = [issued EXCEPT ![c] = @ + 1]
    /\ cpc' = [cpc EXCEPT ![c] = "done"]
    /\ UNCHANGED <<_cache_settings, _redis_instance, _redis_lock, op, client,
                   nconstructed>>
    /\ clientIdle

\* The operation is over: its result, or the RuntimeError, is with the
\* one who called it.
Finish(c) ==
    /\ cpc[c] \in {"done", "RuntimeError"}
    /\ cpc' = [cpc EXCEPT ![c] = "idle"]
    /\ op' = [op EXCEPT ![c] = ""]
    /\ client' = [client EXCEPT ![c] = NoClient]
    /\ issued' = [issued EXCEPT ![c] = 0]
    /\ UNCHANGED <<_cache_settings, _redis_instance, _redis_lock, nconstructed>>
    /\ clientIdle

\* The process from the import of redis_repository on.
ImportInit ==
    /\ StoreInit
    /\ settings.max_snapshots = MaxSnapshots
    /\ union_mode = "most_fields"
    /\ DecoderIdle
    /\ ClientInit
    /\ NoFault
    /\ ConnectIdle

NextClient ==
    \/ \E s \in Uris : configure_cache(s)
    \/ \E c \in Callers : \E o \in {"save", "fetch"} : _client_or_default(c, o)
    \/ \E c \in Callers : \E s \in Uris : health(c, s)
    \/ \E c \in Callers : Acquire(c)
    \/ \E c \in Callers : CreateClient(c)
    \/ \E c \in Callers : Use(c)
    \/ \E c \in Callers : Finish(c)

ClientSpec == ImportInit /\ [][NextClient]_vars

(* ------------------- backend calls that fail -------------------------- *)
\* A failed pipeline that may have run any number of its commands
FailureOutcomesPartial(d, cmds) ==
    {ApplyAll(d, SubSeq(cmds, 1, i)) : i \in 0..Len(cmds)}

\* What await pipe.execute() may leave of the database when it raises: the
\* MULTI/EXEC unit did not run (the connection failed, or the server
\* refused it), or it ran whole and the error arose on the way back.
FailureOutcomes(d, cmds) == {d, ApplyAll(d, cmds)}

\* The failed call made again
RetryOnError == FALSE

\* No try/except stands around the awaits of the repository and of the
\* store: the exception of a backend call leaves the operation.
RaiseOnError == TRUE

\* pipe.execute() raises.
ExecuteFails(p) ==
    /\ pc[p] = "exec"
    /\ pipe[p] # <<>>
    /\ nfailed[p] < MaxFailures
    /\ \E d \in FailureOutcomes(db, pipe[p]) :
          /\ db' = d
          /\ applied' = [applied EXCEPT ![p] = (d # db)]
    /\ nfailed' = [nfailed EXCEPT ![p] = @ + 1]
    /\ IF RaiseOnError
       THEN /\ pc' = [pc EXCEPT ![p] = "raised"]
            /\ error' = [error EXCEPT ![p] = "RedisError"]
            /\ pipe' = [pipe EXCEPT ![p] = <<>>]
       ELSE UNCHANGED <<pc, error, pipe>>
    /\ UNCHANGED <<settings, union_mode, key, payload, nsaves, saved,
                   last_commit>>
    /\ UNCHANGED <<fetchVars, decVars, clientVars, connVars>>

\* client.scan(...) raises inside scan_keys; the exception goes through
\* the async for of fetch_recent_snapshots.
ScanFails(f) ==
    /\ fpc[f] = "scan"
    /\ nfailed[f] < MaxFailures
    /\ nfailed' = [nfailed EXCEPT ![f] = @ + 1]
    /\ IF RaiseOnError
       THEN /\ fpc' = [fpc EXCEPT ![f] = "raised"]
            /\ error' = [error EXCEPT ![f] = "RedisError"]
       ELSE UNCHANGED <<fpc, error>>
    /\ UNCHANGED <<pattern, cursor, keys, seen, must, results, raw, merged, ret>>
    /\ UNCHANGED <<settings, union_mode, db, applied>>
    /\ UNCHANGED <<saveVars, decVars, clientVars, connVars>>

\* client.lrange(...) raises.
ReadFails(f) ==
    /\ fpc[f] = "read"
    /\ nfailed[f] < MaxFailures
    /\ nfailed' = [nfailed EXCEPT ![f] = @ + 1]
    /\ IF RaiseOnError
       THEN /\ fpc' = [fpc EXCEPT ![f] = "raised"]
            /\ error' = [error EXCEPT ![f] = "RedisError"]
       ELSE UNCHANGED <<fpc, error>>
    /\ UNCHANGED <<pattern, cursor, keys, seen, must, results, raw, merged, ret>>
    /\ UNCHANGED <<settings, union_mode, db, applied>>
    /\ UNCHANGED <<saveVars, decVars, clientVars, connVars>>

\* The feed consumer and a reader with a backend whose calls may fail.
NextFault ==
    \/ nsaves < MaxFeed /\ Feed("s1")
    \/ Execute("s1")
    \/ \E f \in Fetchers : \E pat \in Patterns : FetchCall(f, pat)
    \/ \E f \in Fetchers : ScanStep(f)
    \/ \E f \in Fetchers : ReadKey(f)
    \/ \E f \in Fetchers : FetchReturn(f)
    \/ Tick
    \/ ExecuteFails("s1")
    \/ \E f \in Fetchers : ScanFails(f)
    \/ \E f \in Fetchers : ReadFails(f)

FaultSpec == Init /\ [][NextFault]_vars

(* ------------------- saves of several instruments --------------------- *)
\* Records of several instruments in two of the variants.
KeyRecords ==
    {NewRecord(cls, sid, 1, 1) : cls \in {"LTP", "IndexFull"},
                                 sid \in SecurityIds \cup OtherSecurityIds}

\* Concurrent saves of records of several instruments, and the clock.
NextKeys ==
    \/ \E p \in Savers : \E r \in KeyRecords : SaveCall(p, r)
    \/ \E p \in Savers : Execute(p)
    \/ Tick

KeySpec == Init /\ [][NextKeys]_vars

(* ------------------- paytm_websocket.py: connect ---------------------- *)
\* parse_message from the cursor pos on, as one call: the turns of its
\* loop taken one after the other.  exc names the exception that leaves
\* the call, "" when it returns val.
RECURSIVE ParseFrom(_, _, _)
ParseFrom(data, pos, parsed_data) ==
    IF pos >= Len(data) THEN [exc |-> "", val |-> parsed_data]
    ELSE LET packet_type == data[pos + 1]
         IN IF packet_type \notin KnownTags
            THEN IF UnknownTagBreaks THEN [exc |-> "", val |-> parsed_data]
                 ELSE ParseFrom(data, pos + 1, parsed_data)
            ELSE LET x == Dispatch(packet_type, data, pos + 1)
                 IN IF x.exc = "struct.error"
                    THEN [exc |-> "", val |-> parsed_data]
                    ELSE IF x.exc # "" THEN [exc |-> x.exc, val |-> <<>>]
                    ELSE ParseFrom(data, pos + 1 + Advance(packet_type),
                                   Append(parsed_data, x.val))

\* parse_binary_message(data): return self.parse_message(data)
parse_binary_message(data) == ParseFrom(data, 0, <<>>)

\* The records the feed sends in this part: two LTP snapshots of one
\* instrument and an IndexQuote snapshot of it.
ConnectRecords ==
    {NewRecord("LTP", sid, n, 1) : sid \in SecurityIds, n \in 1..2}
    \cup {NewRecord("IndexQuote", sid, 1, 0) : sid \in SecurityIds}

Binary(bytes) == [kind |-> "bytes", data |-> bytes]

\* A text message; what it says is not looked at.
Text == [kind |-> "str", data |-> <<>>]

\* What the transport may deliver: a frame of whole packets, an LTP packet
\* cut inside its security_id or on its mode byte, or a text message.
Messages ==
    {Binary(Encode(rs)) :
        rs \in UNION {[1..n -> ConnectRecords] : n \in 0..MaxPackets}}
    \cup {Binary(SubSeq(EncodePacket(NewRecord("LTP", 13, 1, 1)), 1, c)) :
            c \in {10, 14}}
    \cup {Text}

\* isinstance(message, bytes)
IsBinary(message) == message.kind = "bytes"

connIdle == UNCHANGED <<storeVars, decVars, clientVars, faultVars>>

\* "async for message in websocket" delivers a message.  A binary message
\* is parsed at once; its records are then saved one by one.  An exception
\* that leaves parse_message is caught by "except Exception" and connect
\* returns.  For a text message logger.warning is called with
\* extra={"message": ...}: logging refuses that key with KeyError when the
\* logger is enabled for warnings (connect returns), and does nothing
\* otherwise (the loop goes on).
Receive(m) ==
    /\ connect.pc = "recv"
    /\ connect.received < MaxMessages
    /\ IF IsBinary(m)
       THEN LET x == parse_binary_message(m.data)
            IN /\ connect' =
                    [pc |-> IF x.exc # "" THEN "returned"
                            ELSE IF x.val = <<>> THEN "recv" ELSE "call",
                     message |-> m,
                     parsed_data |-> x.val,
                     received |-> connect.received + 1]
               /\ journal' =
                    IF x.exc # "" THEN journal
                    ELSE [journal EXCEPT !.decoded = @ \o x.val,
                                         !.mark = Len(journal.handed)]
       ELSE /\ \E next \in {"recv", "returned"} :
                 connect' = [pc |-> next, message |-> m, parsed_data |-> <<>>,
                             received |-> connect.received + 1]
            /\ UNCHANGED journal
    /\ connIdle

\* for data in parsed_data: await self.market_data_store.save_snapshot(data)
\* is reached with the first of the records that are left.
CallSave ==
    /\ connect.pc = "call"
    /\ connect' = [connect EXCEPT !.pc = "save"]
    /\ journal' = [journal EXCEPT !.handed = Append(@, Head(connect.parsed_data))]
    /\ connIdle

\* The loop going on past the record that follows
RemainingSkip(parsed_data) ==
    IF Len(parsed_data) > 1 THEN Tail(Tail(parsed_data)) ELSE <<>>

\* for data in parsed_data: the records after the one just saved
Remaining(parsed_data) == Tail(parsed_data)

\* save_snapshot has returned; the loop takes the next record, or waits
\* for the next message when the frame has none left.
Resume ==
    /\ connect.pc = "save"
    /\ nsaves = Len(journal.handed)
    /\ pc["s1"] = "idle"
    /\ connect' = [connect EXCEPT
                     !.parsed_data = Remaining(@),
                     !.pc = IF Remaining(connect.parsed_data) = <<>>
                            THEN "recv" ELSE "call"]
    /\ UNCHANGED journal
    /\ connIdle

\* The handler without its raise: the error is logged and the loop goes on
LogAndContinue == FALSE

\* except Exception as error: self.logger.error(...); raise
Reraise == TRUE

\* save_snapshot has raised.  The handler around it logs and raises again;
\* "except Exception as e" around the connection logs once more and
\* connect returns None: nothing is raised to its caller and no new
\* connection is made.
Except ==
    /\ connect.pc = "save"
    /\ pc["s1"] = "raised"
    /\ connect' = IF Reraise
                  THEN [connect EXCEPT !.pc = "returned"]
                  ELSE [connect EXCEPT
                          !.parsed_data = Remaining(@),
                          !.pc = IF Remaining(connect.parsed_data) = <<>>
                                 THEN "recv" ELSE "call"]
    /\ UNCHANGED journal
    /\ connIdle

\* The connection ends: "async for" is over, or the transport raises and
\* "except Exception" catches it.  connect returns.
Close ==
    /\ connect.pc = "recv"
    /\ connect' = [connect EXCEPT !.pc = "returned"]
    /\ UNCHANGED journal
    /\ connIdle

\* connect has its connection and has subscribed; it waits for a message.
ConnectInit ==
    /\ StoreInit
    /\ union_mode = "most_fields"
    /\ DecoderIdle
    /\ ClientReady
    /\ _cache_settings = "redis://a"
    /\ NoFault
    /\ connect = [pc |-> "recv", message |-> NoMessage, parsed_data |-> <<>>,
                  received |-> 0]
    /\ journal = [decoded |-> <<>>, handed |-> <<>>, mark |-> 0]

\* The feed consumer: connect, the saves it awaits, and a backend whose
\* transaction may fail.
NextConnect ==
    \/ \E m \in Messages : Receive(m)
    \/ CallSave
    \/ /\ connect.pc = "save"
       /\ nsaves < Len(journal.handed)
       /\ SaveCall("s1", Head(connect.parsed_data))
    \/ Execute("s1")
    \/ ExecuteFails("s1")
    \/ Resume
    \/ Except
    \/ Close

ConnectSpec == ConnectInit /\ [][NextConnect]_vars

(* ============================ properties ============================ *)
ListOf(d, k) == IF k \in DOMAIN d THEN d[k].list ELSE <<>>

\* The last n elements of s, the last one first.
NewestFirst(s, n) == [i \in 1..n |-> s[Len(s) - i + 1]]

Take(s, n) == SubSeq(s, 1, Min(n, Len(s)))

\* C1 (bounded window): once more than max_snapshots saves of one key have
\* completed with no expiry in between, a read of the whole list of the key
\* gives exactly max_snapshots elements: the payloads of the max_snapshots
\* latest saves, the latest first.
C1_BoundedWindow ==
    \A k \in Keys :
        Len(saved[k]) > settings.max_snapshots =>
            LRange(db, k, 0, -1) = NewestFirst(saved[k], settings.max_snapshots)

\* Three saves of one key under a window of two.
C1_Witness ==
    \E k \in Keys :
        /\ settings.max_snapshots = 2
        /\ Len(saved[k]) = 3
        /\ Len(ListOf(db, k)) = 2

\* C2 (length bound): in every state of the database, between any two
\* steps of any callers, every key that exists holds a list of at least one
\* and at most max_snapshots elements.
C2_LengthBound ==
    \A k \in DOMAIN db :
        /\ Len(db[k].list) >= 1
        /\ Len(db[k].list) <= settings.max_snapshots

\* A full list that has been trimmed, while another save of the same key
\* is waiting for its transaction.
C2_Witness ==
    \E k \in DOMAIN db : \E p \in Savers :
        /\ Len(db[k].list) = settings.max_snapshots
        /\ Len(saved[k]) > settings.max_snapshots
        /\ pc[p] = "exec"
        /\ key[p] = k

\* C3 (save atomicity): the database changes only by the passing of time
\* or by one whole save: in a single step the payload of a caller becomes the
\* head of its key's list, the list is cut to max_snapshots, the key's time
\* to live becomes ttl_seconds, every other key stays as it was, and the
\* save returns.  No state lies between the push, the trim and the expiry.
C3_SaveAtomic ==
    [][db' # db =>
         \/ db' = Aged(db)
         \/ \E p \in Savers :
              /\ pc[p] = "exec"
              /\ pc'[p] = "idle"
              /\ key[p] \in DOMAIN db'
              /\ db'[key[p]].list =
                   Take(<<payload[p]>> \o ListOf(db, key[p]),
                        settings.max_snapshots)
              /\ db'[key[p]].ttl = settings.ttl_seconds
              /\ \A k \in Keys \ {key[p]} :
                   /\ k \in DOMAIN db' <=> k \in DOMAIN db
                   /\ k \in DOMAIN db => db'[k] = db[k]]_vars

\* A transaction has pushed, trimmed and re-expired a key that was full and
\* had run down to one second, with another save of that key in flight.
C3_Witness ==
    \E p \in Savers :
        /\ pc[p] = "exec"
        /\ key[p] = last_commit.key
        /\ last_commit.ttl_before = 1
        /\ Len(saved[key[p]]) > settings.max_snapshots
        /\ TtlOf(db, key[p]) = settings.ttl_seconds

\* C4 (TTL refresh): the step in which a save returns leaves the key of
\* the save with a time to live of exactly ttl_seconds, whatever it was
\* before, also when the key did not exist.
C4_TtlRefresh ==
    [][\A p \in Savers :
         (pc[p] = "exec" /\ pc'[p] = "idle") =>
             TtlOf(db', key[p]) = settings.ttl_seconds]_vars

\* The last save found its key with less than ttl_seconds left.
C4_Witness ==
    /\ last_commit.ttl_before >= 1
    /\ last_commit.ttl_before < settings.ttl_seconds
    /\ TtlOf(db, last_commit.key) = settings.ttl_seconds
    /\ \A p \in Savers : pc[p] = "idle"

\* The freshness timestamp of a record: last_trade_time, last_update_time
\* for the variant that has it instead, none for the others.
HasFreshness(data) ==
    "last_trade_time" \in DOMAIN data.f \/ "last_update_time" \in DOMAIN data.f

Freshness(data) ==
    IF "last_trade_time" \in DOMAIN data.f THEN data.f["last_trade_time"]
    ELSE IF "last_update_time" \in DOMAIN data.f THEN data.f["last_update_time"]
    ELSE 0

Done(f) == fpc[f] = "done"

\* C5 (IndexLTP ordered by last_update_time): in the value fetch returns,
\* a record with a last_update_time stands before every record whose
\* freshness timestamp is smaller.
C5_IndexLTPByUpdateTime ==
    \A f \in Fetchers :
        Done(f) =>
            \A i, j \in DOMAIN ret[f] :
                ( /\ "last_update_time" \in DOMAIN ret[f][i].f
                  /\ Freshness(ret[f][j]) < Freshness(ret[f][i]) ) => i < j

\* C6 (fetch merge-sort): the records with a last_trade_time in the value
\* fetch returns stand in non-increasing order of it, whichever keys they
\* came from and in whichever order the keys were read.
C6_MergeSorted ==
    \A f \in Fetchers :
        Done(f) =>
            \A i, j \in DOMAIN ret[f] :
                ( /\ i < j
                  /\ "last_trade_time" \in DOMAIN ret[f][i].f
                  /\ "last_trade_time" \in DOMAIN ret[f][j].f )
                => ret[f][i].f["last_trade_time"] >= ret[f][j].f["last_trade_time"]

\* Two records of two keys that were read oldest first and returned newest
\* first.
C6_Witness ==
    \E f \in Fetchers :
        /\ Done(f)
        /\ Len(ret[f]) = 2
        /\ Len(merged[f]) = 2
        /\ "last_trade_time" \in DOMAIN ret[f][1].f
        /\ "last_trade_time" \in DOMAIN ret[f][2].f
        /\ ret[f][1].f["last_trade_time"] > ret[f][2].f["last_trade_time"]
        /\ ret[f][1].f["packet_type"] # ret[f][2].f["packet_type"]
        /\ merged[f][1] = ret[f][2]

\* C7 (records without timestamp last): in the value fetch returns, a
\* record that has no timestamp field stands behind every record whose
\* freshness timestamp is greater than zero.
C7_NoTimestampLast ==
    \A f \in Fetchers :
        Done(f) =>
            \A i, j \in DOMAIN ret[f] :
                ( /\ ~HasFreshness(ret[f][i])
                  /\ Freshness(ret[f][j]) > 0 ) => j < i

IsPrefix(s, t) == Len(s) <= Len(t) /\ \A i \in DOMAIN s : s[i] = t[i]

WithSortKey(s, t) == SelectSeq(s, LAMBDA x : SortKey(x) = t)

\* C8 (stable sort): the records of equal sort timestamp in the value
\* fetch returns stand in the order in which they were read.
C8_Stable ==
    \A f \in Fetchers :
        Done(f) =>
            \A t \in 0..MaxTime :
                IsPrefix(WithSortKey(ret[f], t), WithSortKey(merged[f], t))

\* Two different records of two keys with the same sort timestamp.
C8_Witness ==
    \E f \in Fetchers :
        /\ Done(f)
        /\ Len(ret[f]) = 2
        /\ SortKey(ret[f][1]) = SortKey(ret[f][2])
        /\ ret[f][1].f["packet_type"] # ret[f][2].f["packet_type"]
        /\ "last_trade_time" \in DOMAIN ret[f][1].f

Count(s, x) == Cardinality({i \in DOMAIN s : s[i] = x})

Range2(s, t) == {s[i] : i \in DOMAIN s} \cup {t[i] : i \in DOMAIN t}

\* s holds the elements of m, each as often as m, in non-increasing order
\* of the sort timestamp.
IsSortedMerge(s, m) ==
    /\ Len(s) = Len(m)
    /\ \A x \in Range2(s, m) : Count(s, x) = Count(m, x)
    /\ \A i, j \in DOMAIN s : i < j => SortKey(s[i]) >= SortKey(s[j])

\* C9 (truncation): fetch returns at most max_snapshots records: the first
\* max_snapshots entries of the sorted merge of everything it read, all of
\* the merge when that is shorter.
C9_Truncated ==
    \A f \in Fetchers :
        Done(f) =>
            /\ Len(ret[f]) <= settings.max_snapshots
            /\ IsSortedMerge(results[f], merged[f])
            /\ Len(ret[f]) = Min(settings.max_snapshots, Len(results[f]))
            /\ \A i \in DOMAIN ret[f] : ret[f][i] = results[f][i]

\* More records were read, from more than one key, than fetch may return.
C9_Witness ==
    \E f \in Fetchers :
        /\ Done(f)
        /\ Len(results[f]) > settings.max_snapshots
        /\ Len(ret[f]) = settings.max_snapshots
        /\ results[f][1].f["packet_type"] # results[f][2].f["packet_type"]

Valid(entries) == SelectSeq(entries, LAMBDA e : Candidates(e) # {})

\* C10 (corrupt entry skip): a fetch that has read elements which are not
\* the JSON of any record ends normally; the records it collected are those
\* of the other elements, one each and in read order, and it returns what
\* it would have returned had the corrupt elements not been there.
C10_CorruptSkipped ==
    \A f \in Fetchers :
        Done(f) =>
            LET valid == Valid(raw[f])
            IN /\ Len(merged[f]) = Len(valid)
               /\ \A i \in DOMAIN valid :
                    /\ merged[f][i].cls \in Candidates(valid[i])
                    /\ \A x \in DOMAIN merged[f][i].f \cap DOMAIN valid[i] :
                         merged[f][i].f[x] = valid[i][x]
               /\ IsSortedMerge(results[f], merged[f])
               /\ ret[f] = Take(results[f], settings.max_snapshots)

\* A list of two elements was read whose newest element is a record and
\* whose other element is corrupt; the record is returned.
C10_Witness ==
    \E f \in Fetchers :
        /\ Done(f)
        /\ Len(raw[f]) = 2
        /\ Candidates(raw[f][1]) # {}
        /\ raw[f][2] = Garbage
        /\ raw[f][1]["last_price"] = 2
        /\ Len(ret[f]) = 1

\* The end, in the frame, of the n-th packet the feed sent.
EndOf(n) == Len(Encode(SubSeq(sent, 1, n)))

\* The number of packets that lie wholly inside the bytes decoded.
Inside == Cardinality({n \in 1..Len(sent) : EndOf(n) <= Len(parse_message.data)})

Decoding == dpc # "idle"

\* The bytes decoded are whole packets cut at some byte.
IsCut == Decoding /\ IsPrefix(parse_message.data, whole)

\* The bytes decoded are the whole packets and nothing else.
IsWhole == Decoding /\ parse_message.data = whole

\* The bytes decoded are whole packets, a byte that is no packet type, and
\* possibly more.
HasUnknownTag ==
    /\ Decoding
    /\ Len(parse_message.data) > Len(whole)
    /\ parse_message.data[Len(whole) + 1] \notin {61, 62, 63, 64, 65, 66}

\* C11 (truncation prefix): decoding whole packets cut at any byte returns
\* normally, and what it returns is the records of the packets that lie
\* wholly before the cut.
C11_TruncationPrefix ==
    IsCut =>
        /\ dpc \in {"loop", "returned"}
        /\ dpc = "returned" =>
             parse_message.parsed_data = SubSeq(sent, 1, Inside)

\* C12 (no exception escapes): whatever the bytes, parse_message is either
\* still in its loop or has returned; no exception has left it.
C12_NoExceptionEscapes == Decoding => dpc \in {"loop", "returned"}

\* C13 (unknown-tag stop): decoding N whole packets followed by a byte
\* that is no packet type, whatever follows that byte, returns the N
\* records of those packets and nothing more.
C13_UnknownTagStop ==
    HasUnknownTag =>
        /\ dpc \in {"loop", "returned"}
        /\ Len(parse_message.parsed_data) <= Len(sent)
        /\ dpc = "returned" => parse_message.parsed_data = sent

\* Two packets, the unknown byte, and a whole LTP packet behind it.
C13_Witness ==
    /\ HasUnknownTag
    /\ dpc = "returned"
    /\ Len(sent) = 2
    /\ Len(parse_message.data) = Len(whole) + 1 + 23
    /\ parse_message.parsed_data = sent

\* The width of the payload of a packet type.
PayloadWidth(tag) ==
    CASE tag = 61 -> 22
      [] tag = 62 -> 66
      [] tag = 63 -> 174
      [] tag = 64 -> 22
      [] tag = 65 -> 42
      [] tag = 66 -> 38

RECURSIVE Framed(_)
Framed(n) ==
    IF n = 0 THEN 0
    ELSE Framed(n - 1) + 1 + PayloadWidth(whole[Framed(n - 1) + 1])

VariantOf(tag) == CHOOSE c \in Variants : DefaultPacketType(c) = tag

\* C14 (multi-packet framing): while n whole packets are decoded, the
\* cursor stands behind the packets parsed so far, each counted as its tag
\* byte and the payload width of its tag, and never past the end of the
\* bytes; the i-th record is of the variant of the i-th tag and has it as
\* packet_type; at the return there are n records and the cursor is at
\* the end.
C14_Framing ==
    IsWhole =>
        LET n == Len(parse_message.parsed_data)
        IN /\ dpc \in {"loop", "returned"}
           /\ n <= Len(sent)
           /\ parse_message.pos = Framed(n)
           /\ parse_message.pos <= Len(parse_message.data)
           /\ \A i \in 1..n :
                LET tag == whole[Framed(i - 1) + 1]
                IN /\ parse_message.parsed_data[i].cls = VariantOf(tag)
                   /\ parse_message.parsed_data[i].f["packet_type"] = tag
                   /\ parse_message.parsed_data[i].cls = sent[i].cls
           /\ dpc = "returned" =>
                /\ n = Len(sent)
                /\ parse_message.pos = Len(parse_message.data)

\* A Quote packet and a packet of another variant behind it, decoded to
\* the end.
C14_Witness ==
    /\ IsWhole
    /\ dpc = "returned"
    /\ Len(sent) = 2
    /\ sent[1].cls = "Quote"
    /\ sent[2].cls = "IndexFull"
    /\ Len(parse_message.parsed_data) = 2
    /\ parse_message.pos = 67 + 39

\* Offset of security_id in the payload of a packet type.
SecurityIdOffset(tag) ==
    CASE tag \in {61, 62, 64} -> 8
      [] tag \in {65, 66} -> 4
      [] tag = 63 -> 108

U32At(bytes, off) ==
    bytes[off + 1] + 256 * bytes[off + 2] + 65536 * bytes[off + 3]
    + 16777216 * bytes[off + 4]

\* C15 (decoder round-trip): decoding the encoding of records gives back
\* those records, equal in every field, and the security_id of each is
\* the number at the offset of its packet type.
C15_RoundTrip ==
    (IsWhole /\ dpc = "returned") =>
        /\ parse_message.parsed_data = sent
        /\ \A i \in DOMAIN sent :
             parse_message.parsed_data[i].f["security_id"] =
                U32At(whole, Framed(i - 1) + 1
                             + SecurityIdOffset(sent[i].f["packet_type"]))

\* A Full packet and an IndexQuote packet have been decoded; the fields
\* of a record differ from one another.
C15_Witness ==
    /\ IsWhole
    /\ dpc = "returned"
    /\ Len(sent) = 2
    /\ sent[1].cls = "Full"
    /\ sent[2].cls = "IndexQuote"
    /\ parse_message.parsed_data = sent
    /\ sent[1].f["security_id"] # sent[1].f["last_trade_time"]
    /\ sent[1].f["market_depth"][1] # sent[1].f["market_depth"][2]
    /\ sent[2].f["security_id"] > 65536

\* C16 (at-most-once construction): in every step, whatever the callers of
\* get_redis_client do and whenever configure_cache is called, at most one
\* client has been built, the client of the module is never replaced,
\* and every caller that was given a client holds that one.
C16_AtMostOnce ==
    [][/\ nconstructed' <= 1
       /\ _redis_instance # NoClient => _redis_instance' = _redis_instance
       /\ \A c \in Callers :
            cpc'[c] \in {"client", "done"} =>
                /\ client'[c] # NoClient
                /\ client'[c] = _redis_instance']_vars

\* One caller has its client; the other went for the lock when there was
\* no client, holds the lock now and is about to look again; the settings
\* have been configured again with another URI since the client was built.
C16_Witness ==
    \E c1, c2 \in Callers :
        /\ cpc[c1] = "done"
        /\ client[c1] = _redis_instance
        /\ cpc[c2] = "locked"
        /\ nconstructed = 1
        /\ _cache_settings # None
        /\ _redis_instance.cache_uri # _cache_settings

\* C17 (not-configured fail-fast): a save or fetch that asks for the
\* client while no settings are configured gets RuntimeError in that very
\* step, in which no client is built and no backend command is issued;
\* an operation that has raised it holds no client, has issued nothing,
\* and does nothing but end.
C17_NotConfigured ==
    [][\A c \in Callers :
         /\ ( /\ cpc[c] = "idle"
              /\ cpc'[c] # "idle"
              /\ op'[c] \in {"save", "fetch"}
              /\ _cache_settings = None )
            => /\ cpc'[c] = "RuntimeError"
               /\ nconstructed' = nconstructed
               /\ _redis_instance' = _redis_instance
               /\ issued' = issued
         /\ cpc[c] = "RuntimeError"
            => /\ issued[c] = 0
               /\ client[c] = NoClient
               /\ cpc'[c] \in {"RuntimeError", "idle"}
               /\ cpc'[c] = "idle" =>
                    /\ nconstructed' = nconstructed
                    /\ \A x \in Callers : issued'[x] <= issued[x]]_vars

\* A save and a fetch have both raised RuntimeError; nothing was built.
C17_Witness ==
    \E c1, c2 \in Callers :
        /\ cpc[c1] = "RuntimeError"
        /\ op[c1] = "save"
        /\ cpc[c2] = "RuntimeError"
        /\ op[c2] = "fetch"
        /\ _cache_settings = None
        /\ nconstructed = 0
        /\ _redis_instance = NoClient

PcOf(x) == IF x \in Savers THEN pc[x] ELSE fpc[x]

\* C18 (backend-unavailable propagation): a store operation one of whose
\* backend calls has failed has raised that error to its caller; the call
\* failed once and was not made again: a save has nothing left queued, a
\* fetch has returned nothing.
C18_ErrorPropagates ==
    \A x \in Tasks :
        /\ nfailed[x] > 0 =>
             /\ nfailed[x] = 1
             /\ PcOf(x) = "raised"
             /\ error[x] = "RedisError"
        /\ PcOf(x) = "raised" =>
             /\ nfailed[x] = 1
             /\ x \in Savers => pipe[x] = <<>>
             /\ x \in Fetchers => ret[x] = <<>>

\* A save has raised, and so has a fetch that had read a key before one
\* of its later calls failed.
C18_Witness ==
    /\ pc["s1"] = "raised"
    /\ \E f \in Fetchers :
          /\ fpc[f] = "raised"
          /\ raw[f] # <<>>
          /\ error[f] = "RedisError"

\* C19 as stated (a failed save changes nothing): the step in which a
\* save raises leaves the database as it was.
C19_FailedSaveUnchanged ==
    [][\A p \in Savers :
         (pc[p] = "exec" /\ pc'[p] = "raised") => db' = db]_vars

\* C19 (no partial writes): the step in which a save raises leaves the
\* database as it was, or as a whole save leaves it: the payload at the
\* head of the key's list, the list cut to max_snapshots, the time to
\* live at ttl_seconds, every other key as it was.  Never the push without
\* the trim or without the expiry.
C19_NoPartialWrite ==
    [][\A p \in Savers :
         (pc[p] = "exec" /\ pc'[p] = "raised") =>
             \/ db' = db
             \/ /\ key[p] \in DOMAIN db'
                /\ db'[key[p]].list =
                     Take(<<payload[p]>> \o ListOf(db, key[p]),
                          settings.max_snapshots)
                /\ db'[key[p]].ttl = settings.ttl_seconds
                /\ \A k \in Keys \ {key[p]} :
                     /\ k \in DOMAIN db' <=> k \in DOMAIN db
                     /\ k \in DOMAIN db => db'[k] = db[k]]_vars

\* A save of a key that had a snapshot raised after the server had run
\* its transaction: under a window of one its payload is the list.
C19_Witness ==
    \E p \in Savers :
        /\ pc[p] = "raised"
        /\ applied[p]
        /\ settings.max_snapshots = 1
        /\ last_commit.key = key[p]
        /\ payload[p]["last_price"] = 2
        /\ ListOf(db, key[p]) = <<payload[p]>>
        /\ TtlOf(db, key[p]) = settings.ttl_seconds

\* "{key_prefix}:{security_id}:{packet_type}" of a stored payload.
KeyText(e) ==
    <<settings.key_prefix, ":">> \o str(e["security_id"]) \o <<":">>
    \o str(e["packet_type"])

SameInstrument(e1, e2) ==
    /\ e1["security_id"] = e2["security_id"]
    /\ e1["packet_type"] = e2["packet_type"]

\* C20 (key isolation): the key of a save is the text
\* "{key_prefix}:{security_id}:{packet_type}" of its record; the step in
\* which the save takes effect leaves every other key with its list and
\* its time to live; and two saves have the same key exactly when their
\* records have the same security_id and the same packet_type.
C20_KeyIsolation ==
    [][/\ \A p \in Savers :
            (pc[p] = "exec" /\ pc'[p] = "idle") =>
                /\ key[p] = KeyText(payload[p])
                /\ \A k \in (DOMAIN db \cup DOMAIN db') \ {key[p]} :
                     /\ k \in DOMAIN db
                     /\ k \in DOMAIN db'
                     /\ db'[k] = db[k]
       /\ \A p, q \in Savers :
            (pc'[p] = "exec" /\ pc'[q] = "exec") =>
                (key'[p] = key'[q] <=> SameInstrument(payload'[p], payload'[q]))
       /\ \A k \in DOMAIN db' : \A i \in DOMAIN db'[k].list :
            KeyText(db'[k].list[i]) = k]_vars

\* The keys of instruments 13 and 131 both hold an LTP snapshot; the one
\* of 131 was saved last, and the one of 13 has aged since its own save.
C20_Witness ==
    \E k1, k2 \in DOMAIN db :
        /\ k1 # k2
        /\ db[k1].list[1]["security_id"] = 13
        /\ db[k2].list[1]["security_id"] = 131
        /\ db[k1].list[1]["packet_type"] = 61
        /\ db[k2].list[1]["packet_type"] = 61
        /\ last_commit.key = k2
        /\ db[k1].ttl < db[k2].ttl
        /\ \E p \in Savers : pc[p] = "exec" /\ payload[p]["packet_type"] = 66

\* The records the system holds: those parse_message has constructed and
\* those a fetch has re-materialized from stored elements.
Records ==
    Range(parse_message.parsed_data)
    \cup UNION {Range(results[f]) \cup Range(ret[f]) : f \in Fetchers}

\* C21 (packet_type fixed per variant): every record, constructed by the
\* decoder or re-materialized by a fetch, has the packet_type of its
\* variant: LTP 61, Quote 62, Full 63, IndexLTP 64, IndexQuote 65,
\* IndexFull 66.
C21_PacketTypeFixed ==
    \A r \in Records : r.f["packet_type"] = DefaultPacketType(r.cls)

\* What a fetch holds of its scan.
ScanState(f) == <<fpc[f], cursor[f], keys[f], seen[f], raw[f], results[f]>>

\* fpc after a batch or a key has been dealt with: the next key, the next
\* scan, or the end of the scan.
After(rest, c) ==
    IF rest # <<>> THEN "read" ELSE IF c = 0 THEN "return" ELSE "scan"

\* C22 (scan protocol): a fetch starts its scan at cursor 0; the cursor it
\* holds changes only by the answer to a scan, so every scan after the
\* first is called with the cursor the backend returned last; the keys of
\* an answer are all put up for reading, with whichever cursor they came,
\* and a key leaves the batch only by one range-read of it; a new scan is
\* called only when the batch is read and the cursor is not 0, and the scan
\* ends only when the batch is read and the cursor is 0.  Once the backend
\* has returned the cursor 0 the fetch comes to its end, and a fetch that
\* has ended holds the cursor 0.
C22_ScanProtocol ==
    /\ [][\A f \in Fetchers :
            /\ (fpc[f] = "idle" /\ fpc'[f] # "idle") =>
                 /\ fpc'[f] = "scan"
                 /\ cursor'[f] = 0
                 /\ keys'[f] = <<>>
                 /\ seen'[f] = {}
            /\ cursor'[f] # cursor[f] => fpc[f] = "scan"
            /\ (fpc[f] = "scan" /\ ScanState(f)' # ScanState(f)) =>
                 /\ keys[f] = <<>>
                 /\ Range(keys'[f]) = seen'[f] \ seen[f]
                 /\ Len(keys'[f]) = Cardinality(Range(keys'[f]))
                 /\ raw'[f] = raw[f]
                 /\ fpc'[f] = After(keys'[f], cursor'[f])
            /\ (fpc[f] = "read" /\ ScanState(f)' # ScanState(f)) =>
                 /\ keys[f] # <<>>
                 /\ keys'[f] = Tail(keys[f])
                 /\ raw'[f] = raw[f] \o LRange(db, Head(keys[f]), 0,
                                               settings.max_snapshots - 1)
                 /\ seen'[f] = seen[f]
                 /\ fpc'[f] = After(keys'[f], cursor[f])
            /\ fpc'[f] \in {"return", "done"} =>
                 /\ cursor'[f] = 0
                 /\ keys'[f] = <<>>
            /\ (fpc'[f] = "scan" /\ ScanState(f)' # ScanState(f)) =>
                 (fpc[f] = "idle" \/ cursor'[f] # 0)]_vars
    /\ \A f \in Fetchers :
         (fpc[f] \in {"read", "return"} /\ cursor[f] = 0) ~> Done(f)

\* The backend has returned the cursor 0 together with a batch of keys,
\* after a batch that came with another cursor and has been read.
C22_Witness ==
    \E f \in Fetchers :
        /\ fpc[f] = "read"
        /\ cursor[f] = 0
        /\ keys[f] # <<>>
        /\ raw[f] # <<>>
        /\ Cardinality(seen[f]) = 2

\* The list of a key after the saves of the payloads, one at a time and in
\* this order, each a push at the head and a cut to max_snapshots.
RECURSIVE Serial(_, _)
Serial(payloads, max_snapshots) ==
    IF payloads = <<>> THEN <<>>
    ELSE Take(<<payloads[Len(payloads)]>>
              \o Serial(SubSeq(payloads, 1, Len(payloads) - 1), max_snapshots),
              max_snapshots)

\* C23 (concurrent saves serialize): in every state the database passes
\* through while save calls overlap, the list of every key is the list
\* that the saves committed to it so far give when made one at a time in the
\* order of their commits: the min(K, max_snapshots) payloads committed
\* last, the last one first, each once; and no list is longer than
\* max_snapshots.
C23_Serialized ==
    \A k \in Keys :
        LET K == Len(saved[k])
        IN /\ ListOf(db, k) = Serial(saved[k], settings.max_snapshots)
           /\ ListOf(db, k) =
                NewestFirst(saved[k], Min(K, settings.max_snapshots))
           /\ Len(ListOf(db, k)) <= settings.max_snapshots
           /\ k \in DOMAIN db <=> K > 0

\* Two saves of one key that were both called before either had
\* committed (both carry the price of a first save) have committed, and a
\* third save of that key is waiting for its transaction.
C23_Witness ==
    \E k \in Keys : \E p \in Savers :
        /\ settings.max_snapshots = 2
        /\ Len(saved[k]) = 2
        /\ saved[k][1]["last_price"] = 1
        /\ saved[k][2]["last_price"] = 1
        /\ saved[k][1] # saved[k][2]
        /\ ListOf(db, k) = <<saved[k][2], saved[k][1]>>
        /\ pc[p] = "exec"
        /\ key[p] = k

\* The record a saver is saving is the one connect called it with last.
SavingLast(p) ==
    /\ payload'[p] = dump_json(journal'.handed[Len(journal'.handed)])
    /\ nsaves' = Len(journal'.handed)

\* C24 (feed consumer ordering): the records connect calls save_snapshot
\* with are, in order and each once, the records parse_message returned
\* for the binary frames received; a call is made only when every call
\* before it has been made and has returned; a frame is parsed only when
\* every record of the frames before it has been saved, and connect waits
\* for a message only then; a text message is not parsed and leads to no
\* save.
C24_FeedOrdering ==
    [][/\ IsPrefix(journal'.handed, journal'.decoded)
       /\ journal'.handed # journal.handed =>
            /\ Len(journal'.handed) = Len(journal.handed) + 1
            /\ nsaves = Len(journal.handed)
            /\ pc["s1"] = "idle"
       /\ nsaves' # nsaves => SavingLast("s1")
       /\ connect'.received # connect.received =>
            /\ journal.handed = journal.decoded
            /\ nsaves = Len(journal.handed)
            /\ pc["s1"] = "idle"
            /\ journal'.handed = journal.handed
            /\ IF connect'.message.kind = "bytes"
               THEN journal'.decoded = journal.decoded
                      \o parse_binary_message(connect'.message.data).val
               ELSE /\ journal' = journal
                    /\ connect'.parsed_data = <<>>
                    /\ nsaves' = nsaves
                    /\ db' = db
       /\ journal'.decoded # journal.decoded =>
            connect'.received # connect.received
       /\ connect'.pc = "recv" =>
            /\ journal'.handed = journal'.decoded
            /\ nsaves' = Len(journal'.handed)
            /\ pc'["s1"] = "idle"]_vars

\* A frame of two records of one key has been saved, the second record
\* after the first; then a text message came, which changed nothing, and
\* connect waits for the next message.
C24_Witness ==
    /\ connect.pc = "recv"
    /\ connect.received = 2
    /\ connect.message.kind = "str"
    /\ Len(journal.decoded) = 2
    /\ journal.handed = journal.decoded
    /\ journal.decoded[1].f["last_price"] = 2
    /\ journal.decoded[2].f["last_price"] = 1
    /\ settings.max_snapshots = 2
    /\ \E k \in DOMAIN db :
          db[k].list = <<dump_json(journal.decoded[2]),
                         dump_json(journal.decoded[1])>>

\* The payload of a record is an element of some list of the database.
Stored(d, r) ==
    \E k \in DOMAIN d : \E i \in DOMAIN d[k].list : d[k].list[i] = dump_json(r)

\* The step in which the save connect is waiting for raises.
SaveRaises == pc["s1"] = "exec" /\ pc'["s1"] = "raised"

\* The records of the frame at hand whose saves had returned before.
SavedOfFrame ==
    {journal.handed[i] : i \in (journal.mark + 1)..(Len(journal.handed) - 1)}

\* After a save has raised: nothing more is saved, parsed or received,
\* the database stays, and the one thing connect does is return.
FeedEnded ==
    pc["s1"] = "raised" =>
        /\ nsaves' = nsaves
        /\ journal' = journal
        /\ db' = db
        /\ connect'.received = connect.received
        /\ connect'.parsed_data = connect.parsed_data
        /\ connect'.pc \in {connect.pc, "returned"}
        /\ connect.pc \in {"save", "returned"}

\* C27 as stated (a store failure ends the feed loop): when a save raises,
\* the records of that frame saved before are still stored; no later
\* record of the frame and no record of a later frame is saved; connect
\* returns, raising nothing and connecting no more.
C27_StoreFailureEndsFeed ==
    [][/\ SaveRaises => \A r \in SavedOfFrame : Stored(db', r)
       /\ FeedEnded]_vars

\* The saves connect made after its i-th one that pushed onto the same key
\* and took effect; the last save counts when the database shows it.
PushedOver(i, last_applied) ==
    {j \in (i + 1)..Len(journal.handed) :
        /\ KeyText(dump_json(journal.handed[j]))
             = KeyText(dump_json(journal.handed[i]))
        /\ j = Len(journal.handed) => last_applied}

\* C27 (a store failure ends the feed loop): when a save raises, the
\* database is as it was, or as the whole save leaves it; a record of that
\* frame saved before is still stored unless max_snapshots later saves of
\* the same key have pushed it out, the failed one among them when it took
\* effect; no later record of the frame and no record of a later frame is
\* saved; connect returns, raising nothing and connecting no more.
C27_FailureEndsFeed ==
    [][/\ SaveRaises =>
            /\ \/ db' = db
               \/ /\ key["s1"] \in DOMAIN db'
                  /\ db'[key["s1"]].list =
                       Take(<<payload["s1"]>> \o ListOf(db, key["s1"]),
                            settings.max_snapshots)
                  /\ \A k \in DOMAIN db \ {key["s1"]} :
                       k \in DOMAIN db' /\ db'[k].list = db[k].list
            /\ \A i \in (journal.mark + 1)..(Len(journal.handed) - 1) :
                 \/ Stored(db', journal.handed[i])
                 \/ Cardinality(PushedOver(i, db' # db))
                      >= settings.max_snapshots
       /\ FeedEnded]_vars

\* The save of the second record of a frame has raised with nothing
\* applied; connect has returned with one more message to come; the first
\* record of the frame is stored and the second is not.
C27_Witness ==
    /\ connect.pc = "returned"
    /\ pc["s1"] = "raised"
    /\ ~applied["s1"]
    /\ connect.received = 1
    /\ journal.mark = 0
    /\ Len(journal.decoded) = 2
    /\ Len(journal.handed) = 2
    /\ journal.handed[1] # journal.handed[2]
    /\ Stored(db, journal.handed[1])
    /\ ~Stored(db, journal.handed[2])

(* ------------------------------- C25 ---------------------------------- *)
\* The seconds since the newest element of the list at k was committed:
\* every commit sets the key's time to live to ttl_seconds and every second
\* takes one off it.
AgeOfNewest(k) == settings.ttl_seconds - db[k].ttl

\* The list at k holds an element that was its newest one until the last
\* commit, which found the key alive.
HasOlder(k) ==
    /\ k \in DOMAIN db
    /\ last_commit.key = k
    /\ last_commit.ttl_before >= 1
    /\ Len(db[k].list) >= 2

\* The seconds since that element was committed: its age when the last
\* commit came, and the seconds since.
AgeOfSecond(k) ==
    (settings.ttl_seconds - last_commit.ttl_before) + AgeOfNewest(k)

\* The two ages are ages: a commit makes the newest element 0 seconds old
\* and the one under it as old as the newest was, and a second makes every
\* element one second older.
AgesRun ==
    /\ (pc["s1"] = "exec" /\ pc'["s1"] = "idle") =>
          \A k \in {key["s1"]} :
             /\ AgeOfNewest(k)' = 0
             /\ HasOlder(k)' => AgeOfSecond(k)' = AgeOfNewest(k)
    /\ (pc' = pc /\ db' # db) =>
          \A k \in DOMAIN db' :
             /\ AgeOfNewest(k)' = AgeOfNewest(k) + 1
             /\ HasOlder(k)' => HasOlder(k) /\ AgeOfSecond(k)' = AgeOfSecond(k) + 1

C26_RoundTrip ==
    \A f \in Fetchers :
       fpc[f] \in {"scan", "read", "return"} =>
          /\ Len(results[f]) = Len(raw[f])
          /\ \A i \in DOMAIN results[f] :
                /\ results[f][i].cls = VariantOf(raw[f][i]["packet_type"])
                /\ results[f][i].f = raw[f][i]

(* ------------------------------- C28 ---------------------------------- *)
\* A step of a fetch: its call, a scan, a read, its return, or a backend
\* call of it that fails.
FetchStep == fetchVars' # fetchVars \/ \E f \in Fetchers : nfailed'[f] # nfailed[f]

\* C28 (fetch is read-only, the core never deletes): a step of a fetch
\* leaves every list and every time to live as they are; a key ceases to
\* exist only in the second in which its time to live runs out; and a list
\* changes only by a save of its key, which puts its payload on top and
\* keeps the elements that were there, in their order, but for those beyond
\* max_snapshots, also when the save raises.
C28_FetchReadOnly ==
    [][/\ FetchStep => db' = db
       /\ \A k \in DOMAIN db \ DOMAIN db' :
             /\ db[k].ttl = 1
             /\ db' = Aged(db)
       /\ \A k \in DOMAIN db \cap DOMAIN db' :
             db'[k].list # db[k].list =>
                \E p \in Savers :
                   /\ pc[p] = "exec"
                   /\ key[p] = k
                   /\ db'[k].list =
                        Take(<<payload[p]>> \o db[k].list,
                             settings.max_snapshots)]_vars

\* A fetch has read a key that had one second left and has returned; the
\* key still has one second left, and a save has dropped the oldest element
\* of a full list.
C28_Witness ==
    \E f \in Fetchers : \E k \in DOMAIN db :
       /\ Done(f)
       /\ raw[f] # <<>>
       /\ k \in seen[f]
       /\ db[k].ttl = 1
       /\ last_commit.ttl_before >= 1
       /\ Len(saved[last_commit.key]) > settings.max_snapshots

====
